---- MODULE Spec2Model ----
(***************************************************************************)
(* Model of the Tetris game reducer (game module, src/src/input.ts lines   *)
(* 63-437), its constants (src/src/constants.ts) and its shape table       *)
(* (src/src/tetrominoes.ts), of the keyboard mapper (src/src/input.ts      *)
(* lines 1-62), of dispatch, gameLoop and onAction of src/src/main.ts and  *)
(* of getGhostRow of src/src/renderer.ts.                                  *)
(*                                                                         *)
(* The board is a function [0..ROWS-1 -> [0..COLS-1 -> cell]] so that row  *)
(* and column indices are the 0-based indices of the source.  A cell is    *)
(* the string "0" (the source's number 0, empty) or a tetromino type.      *)
(* The source's null piece is the record NoPiece, its null hold slot the   *)
(* string "null".  Every call of randomType() is an input `draw`.          *)
(*                                                                         *)
(* state is main.ts's `state`; prevState and lastAction are dispatch's     *)
(* `prevState` and `action` of the latest dispatch (src/src/main.ts 58-61).*)
(* cues is the set of sound cues the latest dispatch played and             *)
(* scorePopValue is main.ts's `scorePopValue` (src/src/main.ts 62-92).     *)
(* probe and timing hold the arguments and the result of one call of a     *)
(* pure function (SpecFits, SpecDelay).  event and log are history         *)
(* variables of SpecMain: the latest browser event handled with the state  *)
(* it found, and the state main.ts started from with the dispatch calls    *)
(* issued by the handlers since.  fall is the history variable of         *)
(* SpecFall: the ticks dispatched since the exploration's piece spawned,   *)
(* and whether one of them has locked a piece.                             *)
(***************************************************************************)
EXTENDS Integers, Sequences, FiniteSets, TLC

VARIABLES state, prevState, lastAction, steps, probe, timing, cues, scorePopValue,
          event, log, fall

vars == <<state, prevState, lastAction, steps, probe, timing, cues, scorePopValue,
          event, log, fall>>

(***************************************************************************)
(* Bounds of the exploration.                                              *)
(***************************************************************************)
\* number of actions dispatched along one behaviour
MaxSteps == 3
\* randomType() draws among the first NumKinds entries of TETROMINO_TYPES
NumKinds == 2
\* getFallDelayMs is called with the levels 1..MaxLevel
MaxLevel == 13
\* number of browser events (key presses, animation frames) handled along one
\* behaviour of SpecMain
MaxEvents == 2

(***************************************************************************)
(* constants.ts                                                            *)
(***************************************************************************)
COLS == 10
ROWS == 20
LINES_PER_LEVEL == 10
SPAWN_COL == 3
SPAWN_ROW == 0
BASE_FALL_MS == 1000
MIN_FALL_MS == 100
\* 0.8, as the fraction <<numerator, denominator>>
LEVEL_SPEED_FACTOR == <<4, 5>>

LINE_SCORES == [k \in 1..4 |-> CASE k = 1 -> 100 [] k = 2 -> 300
                                 [] k = 3 -> 500 [] k = 4 -> 800]

(***************************************************************************)
(* tetrominoes.ts                                                          *)
(***************************************************************************)
TETROMINO_TYPES == <<"I", "O", "T", "S", "Z", "J", "L">>

SHAPES ==
  [I |-> << <<<<0,0,0,0>>, <<1,1,1,1>>, <<0,0,0,0>>, <<0,0,0,0>>>>,
            <<<<0,0,1,0>>, <<0,0,1,0>>, <<0,0,1,0>>, <<0,0,1,0>>>>,
            <<<<0,0,0,0>>, <<0,0,0,0>>, <<1,1,1,1>>, <<0,0,0,0>>>>,
            <<<<0,1,0,0>>, <<0,1,0,0>>, <<0,1,0,0>>, <<0,1,0,0>>>> >>,
   O |-> << <<<<1,1>>, <<1,1>>>>,
            <<<<1,1>>, <<1,1>>>>,
            <<<<1,1>>, <<1,1>>>>,
            <<<<1,1>>, <<1,1>>>> >>,
   T |-> << <<<<0,1,0>>, <<1,1,1>>, <<0,0,0>>>>,
            <<<<0,1,0>>, <<0,1,1>>, <<0,1,0>>>>,
            <<<<0,0,0>>, <<1,1,1>>, <<0,1,0>>>>,
            <<<<0,1,0>>, <<1,1,0>>, <<0,1,0>>>> >>,
   S |-> << <<<<0,1,1>>, <<1,1,0>>, <<0,0,0>>>>,
            <<<<0,1,0>>, <<0,1,1>>, <<0,0,1>>>>,
            <<<<0,0,0>>, <<0,1,1>>, <<1,1,0>>>>,
            <<<<1,0,0>>, <<1,1,0>>, <<0,1,0>>>> >>,
   Z |-> << <<<<1,1,0>>, <<0,1,1>>, <<0,0,0>>>>,
            <<<<0,0,1>>, <<0,1,1>>, <<0,1,0>>>>,
            <<<<0,0,0>>, <<1,1,0>>, <<0,1,1>>>>,
            <<<<0,1,0>>, <<1,1,0>>, <<1,0,0>>>> >>,
   J |-> << <<<<1,0,0>>, <<1,1,1>>, <<0,0,0>>>>,
            <<<<0,1,1>>, <<0,1,0>>, <<0,1,0>>>>,
            <<<<0,0,0>>, <<1,1,1>>, <<0,0,1>>>>,
            <<<<0,1,0>>, <<0,1,0>>, <<1,1,0>>>> >>,
   L |-> << <<<<0,0,1>>, <<1,1,1>>, <<0,0,0>>>>,
            <<<<0,1,0>>, <<0,1,0>>, <<0,1,1>>>>,
            <<<<0,0,0>>, <<1,1,1>>, <<1,0,0>>>>,
            <<<<1,1,0>>, <<0,1,0>>, <<0,1,0>>>> >>]

\* shapes[rotation % shapes.length]; the source indexes from 0
getShape(type, rotation) == SHAPES[type][(rotation % Len(SHAPES[type])) + 1]

\* the values randomType() can return in the explored behaviours
DrawKinds == {TETROMINO_TYPES[i] : i \in 1..NumKinds}

(***************************************************************************)
(* game: state shape                                                       *)
(***************************************************************************)
EMPTY_CELL == "0"
NoPiece == [type |-> "null", row |-> 0, col |-> 0, rotation |-> 0]

createEmptyBoard == [r \in 0..(ROWS - 1) |-> [c \in 0..(COLS - 1) |-> EMPTY_CELL]]

createInitialState(draw) ==
  [board |-> createEmptyBoard,
   piece |-> NoPiece,
   nextPiece |-> draw,
   holdPiece |-> "null",
   canHold |-> TRUE,
   score |-> 0,
   level |-> 1,
   linesCleared |-> 0,
   status |-> "idle",
   lastClearedLines |-> 0,
   lastLocked |-> FALSE]

(***************************************************************************)
(* fits: the double loop with its early returns.  TLC evaluates \A in      *)
(* index order and stops at the first FALSE, like the loop.                *)
(***************************************************************************)
(* getFallDelayMs.  The source computes BASE_FALL_MS * 0.8^(level-1) in    *)
(* floating point; here the product is the exact fraction.  The two agree  *)
(* after Math.floor: the exact product is an integer only for levels 1..4  *)
(* (1000, 800, 640, 512), where the rounding errors of 0.8 and of the      *)
(* product leave the floating-point value at or just above the integer,    *)
(* and for every other level it is farther from an integer than any        *)
(* rounding error.                                                         *)
(***************************************************************************)
RECURSIVE gcd(_, _)
gcd(a, b) == IF b = 0 THEN a ELSE gcd(b, a % b)

\* Math.pow on a fraction <<numerator, denominator>>
RECURSIVE pow(_, _)
pow(q, e) == IF e = 0 THEN <<1, 1>> ELSE LET r == pow(q, e - 1) IN <<r[1] * q[1], r[2] * q[2]>>

\* the product of an integer and a fraction, in lowest terms
times(a, q) == LET g == gcd(a, q[2]) IN <<(a \div g) * q[1], q[2] \div g>>

\* Math.floor of a non-negative fraction
floor(q) == q[1] \div q[2]

max(a, b) == IF a >= b THEN a ELSE b

\* a fall delay without the lower bound MIN_FALL_MS
getFallDelayMsNoMin(level) ==
  LET delay == times(BASE_FALL_MS, pow(LEVEL_SPEED_FACTOR, level - 1))
  IN floor(delay)

getFallDelayMs(level) ==
  LET delay == times(BASE_FALL_MS, pow(LEVEL_SPEED_FACTOR, level - 1))
  IN max(MIN_FALL_MS, floor(delay))

(***************************************************************************)
\* fits with the right wall one column early
fitsNarrow(board, shape, row, col) ==
  LET h == Len(shape)
      w == Len(shape[1])
  IN \A r \in 0..(h - 1) : \A c \in 0..(w - 1) :
       IF shape[r + 1][c + 1] = 0 THEN TRUE
       ELSE LET nr == row + r
                nc == col + c
            IN IF nr < 0 \/ nr >= ROWS \/ nc < 0 \/ nc >= COLS - 1 THEN FALSE
               ELSE board[nr][nc] = EMPTY_CELL

fits(board, shape, row, col) ==
  LET h == Len(shape)
      w == Len(shape[1])
  IN \A r \in 0..(h - 1) : \A c \in 0..(w - 1) :
       IF shape[r + 1][c + 1] = 0 THEN TRUE
       ELSE LET nr == row + r
                nc == col + c
            IN IF nr < 0 \/ nr >= ROWS \/ nc < 0 \/ nc >= COLS THEN FALSE
               ELSE board[nr][nc] = EMPTY_CELL

(***************************************************************************)
(* lockPiece: stamp, collect the full rows bottom-up, filter them out and  *)
(* put as many empty rows in front.                                        *)
(***************************************************************************)
\* a stamp that leaves out the last row of the shape matrix
stampPieceSkipsLastRow(board, piece) ==
  LET shape == getShape(piece.type, piece.rotation)
      h == Len(shape)
      w == Len(shape[1])
  IN [nr \in 0..(ROWS - 1) |-> [nc \in 0..(COLS - 1) |->
        LET r == nr - piece.row
            c == nc - piece.col
        IN IF r >= 0 /\ r < h - 1 /\ c >= 0 /\ c < w /\ shape[r + 1][c + 1] # 0
           THEN piece.type ELSE board[nr][nc]]]

stampPiece(board, piece) ==
  LET shape == getShape(piece.type, piece.rotation)
      h == Len(shape)
      w == Len(shape[1])
  IN [nr \in 0..(ROWS - 1) |-> [nc \in 0..(COLS - 1) |->
        LET r == nr - piece.row
            c == nc - piece.col
        IN IF r >= 0 /\ r < h /\ c >= 0 /\ c < w /\ shape[r + 1][c + 1] # 0
           THEN piece.type ELSE board[nr][nc]]]

\* a scan for full rows that starts one row above the bottom row
fullRowsOfSkipsBottom(newBoard) ==
  LET isFull(i) == \A c \in 0..(COLS - 1) : newBoard[ROWS - i][c] # EMPTY_CELL
      down == [i \in 1..(ROWS - 1) |-> i + 1]
  IN [j \in 1..Len(SelectSeq(down, isFull)) |-> ROWS - SelectSeq(down, isFull)[j]]

\* fullRows, in the order the source pushes them (r = ROWS-1 down to 0)
fullRowsOf(newBoard) ==
  LET isFull(i) == \A c \in 0..(COLS - 1) : newBoard[ROWS - i][c] # EMPTY_CELL
      down == [i \in 1..ROWS |-> i]
  IN [j \in 1..Len(SelectSeq(down, isFull)) |-> ROWS - SelectSeq(down, isFull)[j]]

\* the empty rows put under the remaining rows instead of on top of them
removeFullRowsBottom(newBoard, fullRows) ==
  LET included(i) == \E j \in 1..Len(fullRows) : fullRows[j] = i
      keep(i) == ~included(i - 1)
      filtered == SelectSeq([i \in 1..ROWS |-> i], keep)
      linesCleared == Len(fullRows)
      emptyRows == [i \in 1..linesCleared |-> [c \in 0..(COLS - 1) |-> EMPTY_CELL]]
      finalBoard == [i \in 1..Len(filtered) |-> newBoard[filtered[i] - 1]] \o emptyRows
  IN [r \in 0..(Len(finalBoard) - 1) |-> finalBoard[r + 1]]

removeFullRows(newBoard, fullRows) ==
  LET included(i) == \E j \in 1..Len(fullRows) : fullRows[j] = i
      keep(i) == ~included(i - 1)
      filtered == SelectSeq([i \in 1..ROWS |-> i], keep)
      linesCleared == Len(fullRows)
      emptyRows == [i \in 1..linesCleared |-> [c \in 0..(COLS - 1) |-> EMPTY_CELL]]
      finalBoard == emptyRows \o [i \in 1..Len(filtered) |-> newBoard[filtered[i] - 1]]
  IN [r \in 0..(Len(finalBoard) - 1) |-> finalBoard[r + 1]]

\* a lock that stamps the piece and leaves the full rows on the board
lockPieceKeepsRows(board, piece) ==
  [board |-> stampPiece(board, piece), linesCleared |-> 0]

lockPiece(board, piece) ==
  LET newBoard == stampPiece(board, piece)
      fullRows == fullRowsOf(newBoard)
      linesCleared == Len(fullRows)
  IN IF linesCleared = 0 THEN [board |-> newBoard, linesCleared |-> 0]
     ELSE [board |-> removeFullRows(newBoard, fullRows), linesCleared |-> linesCleared]

\* a spawn that does not ask whether the piece fits
spawnNextNoFit(nextType, board) ==
  [type |-> nextType, row |-> SPAWN_ROW, col |-> SPAWN_COL, rotation |-> 0]

spawnNext(nextType, board) ==
  LET piece == [type |-> nextType, row |-> SPAWN_ROW, col |-> SPAWN_COL, rotation |-> 0]
      shape == getShape(piece.type, piece.rotation)
  IN IF fits(board, shape, piece.row, piece.col) THEN piece ELSE NoPiece

(***************************************************************************)
(* gameReducer, one operator per case of the switch.  `draw` is the value  *)
(* randomType() returns where the case calls it.                           *)
(***************************************************************************)
\* a start that makes the newly drawn kind the first piece
reduceStartSpawnsDraw(s, draw) ==
  IF s.status # "idle" THEN s
  ELSE LET piece == spawnNext(draw, s.board)
       IN IF piece = NoPiece
          THEN [s EXCEPT !.status = "gameover", !.lastLocked = FALSE]
          ELSE [s EXCEPT !.status = "playing", !.piece = piece,
                         !.canHold = TRUE, !.lastLocked = FALSE]

\* a start that stays idle when the first piece finds its spawn cells filled
reduceStartStaysIdle(s, draw) ==
  IF s.status # "idle" THEN s
  ELSE LET next == s.nextPiece
           piece == spawnNext(next, s.board)
       IN IF piece = NoPiece
          THEN s
          ELSE [s EXCEPT !.status = "playing", !.piece = piece, !.nextPiece = draw,
                         !.canHold = TRUE, !.lastLocked = FALSE]

reduceStart(s, draw) ==
  IF s.status # "idle" THEN s
  ELSE LET next == s.nextPiece
           piece == spawnNext(next, s.board)
       IN IF piece = NoPiece
          THEN [s EXCEPT !.status = "gameover", !.lastLocked = FALSE]
          ELSE [s EXCEPT !.status = "playing", !.piece = piece, !.nextPiece = draw,
                         !.canHold = TRUE, !.lastLocked = FALSE]

\* pause that also takes the active piece off the board
reducePauseDropsPiece(s) ==
  IF s.status # "playing" THEN s
  ELSE [s EXCEPT !.status = "paused", !.piece = NoPiece, !.lastLocked = FALSE]

reducePause(s) ==
  IF s.status # "playing" THEN s
  ELSE [s EXCEPT !.status = "paused", !.lastLocked = FALSE]

\* resume that only tests for "not running"
reduceResumeAnyStopped(s) ==
  IF s.status = "playing" THEN s
  ELSE [s EXCEPT !.status = "playing", !.lastLocked = FALSE]

reduceResume(s) ==
  IF s.status # "paused" THEN s
  ELSE [s EXCEPT !.status = "playing", !.lastLocked = FALSE]

\* a restart that carries the score over into the new game
reduceRestartKeepsScore(s, draw) ==
  [createInitialState(draw) EXCEPT !.status = "idle", !.score = s.score]

\* restart that resets the counters and leaves the board
reduceRestartKeepsBoard(s, draw) ==
  [createInitialState(draw) EXCEPT !.status = "idle", !.board = s.board]

reduceRestart(s, draw) == [createInitialState(draw) EXCEPT !.status = "idle"]

\* a move to the left that does not ask whether the piece fits there
reduceMoveLeftNoFit(s) ==
  IF s.status # "playing" \/ s.piece = NoPiece THEN s
  ELSE [s EXCEPT !.piece.col = s.piece.col - 1, !.lastLocked = FALSE]

reduceMoveLeft(s) ==
  IF s.status # "playing" \/ s.piece = NoPiece THEN s
  ELSE LET shape == getShape(s.piece.type, s.piece.rotation)
       IN IF fits(s.board, shape, s.piece.row, s.piece.col - 1)
          THEN [s EXCEPT !.piece.col = s.piece.col - 1, !.lastLocked = FALSE]
          ELSE s

\* a move that looks at the walls and not at the filled cells
reduceMoveRightThroughBlocks(s) ==
  IF s.status # "playing" \/ s.piece = NoPiece THEN s
  ELSE LET shape == getShape(s.piece.type, s.piece.rotation)
       IN IF fits(createEmptyBoard, shape, s.piece.row, s.piece.col + 1)
          THEN [s EXCEPT !.piece.col = s.piece.col + 1, !.lastLocked = FALSE]
          ELSE s

reduceMoveRight(s) ==
  IF s.status # "playing" \/ s.piece = NoPiece THEN s
  ELSE LET shape == getShape(s.piece.type, s.piece.rotation)
       IN IF fits(s.board, shape, s.piece.row, s.piece.col + 1)
          THEN [s EXCEPT !.piece.col = s.piece.col + 1, !.lastLocked = FALSE]
          ELSE s

\* fifty points for every cleared row
scoreAddForFlat(linesCleared) == 50 * linesCleared

\* LINE_SCORES[linesCleared] ?? 0
scoreAddFor(linesCleared) ==
  IF linesCleared \in DOMAIN LINE_SCORES THEN LINE_SCORES[linesCleared] ELSE 0

\* a level that rises with every cleared row
levelForEveryLine(newLines) == newLines + 1

\* a level that rises one line late (at 11, 21, ... lines)
levelForLate(newLines) ==
  IF newLines = 0 THEN 1 ELSE ((newLines - 1) \div LINES_PER_LEVEL) + 1

levelFor(newLines) == (newLines \div LINES_PER_LEVEL) + 1

\* the lock that ends the game leaves the locked piece as the active piece
lockAndSpawnKeepsPiece(s, locked, draw) ==
  LET res == lockPiece(s.board, locked)
      newBoard == res.board
      linesCleared == res.linesCleared
      scoreAdd == scoreAddFor(linesCleared)
      newLines == s.linesCleared + linesCleared
      newLevel == levelFor(newLines)
      next == s.nextPiece
      nextPiece == spawnNext(next, newBoard)
  IN IF nextPiece = NoPiece
     THEN [s EXCEPT !.board = newBoard,
                    !.score = s.score + scoreAdd, !.linesCleared = newLines,
                    !.level = newLevel, !.status = "gameover",
                    !.lastClearedLines = linesCleared, !.lastLocked = TRUE]
     ELSE [s EXCEPT !.board = newBoard, !.piece = nextPiece, !.nextPiece = draw,
                    !.canHold = TRUE,
                    !.score = s.score + scoreAdd, !.linesCleared = newLines,
                    !.level = newLevel,
                    !.lastClearedLines = linesCleared, !.lastLocked = TRUE]

\* the lock that ends the game leaves the score as it was
lockAndSpawnNoFinalScore(s, locked, draw) ==
  LET res == lockPiece(s.board, locked)
      newBoard == res.board
      linesCleared == res.linesCleared
      scoreAdd == scoreAddFor(linesCleared)
      newLines == s.linesCleared + linesCleared
      newLevel == levelFor(newLines)
      next == s.nextPiece
      nextPiece == spawnNext(next, newBoard)
  IN IF nextPiece = NoPiece
     THEN [s EXCEPT !.board = newBoard, !.piece = NoPiece,
                    !.linesCleared = newLines,
                    !.level = newLevel, !.status = "gameover",
                    !.lastClearedLines = linesCleared, !.lastLocked = TRUE]
     ELSE [s EXCEPT !.board = newBoard, !.piece = nextPiece, !.nextPiece = draw,
                    !.canHold = TRUE,
                    !.score = s.score + scoreAdd, !.linesCleared = newLines,
                    !.level = newLevel,
                    !.lastClearedLines = linesCleared, !.lastLocked = TRUE]

\* a lock after which the newly drawn kind is spawned and the kind shown as
\* next stays
lockAndSpawnSpawnsDraw(s, locked, draw) ==
  LET res == lockPiece(s.board, locked)
      newBoard == res.board
      linesCleared == res.linesCleared
      scoreAdd == scoreAddFor(linesCleared)
      newLines == s.linesCleared + linesCleared
      newLevel == levelFor(newLines)
      nextPiece == spawnNext(draw, newBoard)
  IN IF nextPiece = NoPiece
     THEN [s EXCEPT !.board = newBoard, !.piece = NoPiece,
                    !.score = s.score + scoreAdd, !.linesCleared = newLines,
                    !.level = newLevel, !.status = "gameover",
                    !.lastClearedLines = linesCleared, !.lastLocked = TRUE]
     ELSE [s EXCEPT !.board = newBoard, !.piece = nextPiece,
                    !.canHold = TRUE,
                    !.score = s.score + scoreAdd, !.linesCleared = newLines,
                    !.level = newLevel,
                    !.lastClearedLines = linesCleared, !.lastLocked = TRUE]

\* the part shared by move_down (lines 302-337) and hard_drop (lines 368-398):
\* lock `locked`, score, level, spawn the next piece or end the game
lockAndSpawn(s, locked, draw) ==
  LET res == lockPiece(s.board, locked)
      newBoard == res.board
      linesCleared == res.linesCleared
      scoreAdd == scoreAddFor(linesCleared)
      newLines == s.linesCleared + linesCleared
      newLevel == levelFor(newLines)
      next == s.nextPiece
      nextPiece == spawnNext(next, newBoard)
  IN IF nextPiece = NoPiece
     THEN [s EXCEPT !.board = newBoard, !.piece = NoPiece,
                    !.score = s.score + scoreAdd, !.linesCleared = newLines,
                    !.level = newLevel, !.status = "gameover",
                    !.lastClearedLines = linesCleared, !.lastLocked = TRUE]
     ELSE [s EXCEPT !.board = newBoard, !.piece = nextPiece, !.nextPiece = draw,
                    !.canHold = TRUE,
                    !.score = s.score + scoreAdd, !.linesCleared = newLines,
                    !.level = newLevel,
                    !.lastClearedLines = linesCleared, !.lastLocked = TRUE]

\* a soft drop that locks the piece as soon as it comes to rest
reduceMoveDownEagerLock(s, draw) ==
  IF s.status # "playing" \/ s.piece = NoPiece THEN s
  ELSE LET shape == getShape(s.piece.type, s.piece.rotation)
       IN IF fits(s.board, shape, s.piece.row + 1, s.piece.col)
          THEN IF fits(s.board, shape, s.piece.row + 2, s.piece.col)
               THEN [s EXCEPT !.piece.row = s.piece.row + 1, !.lastLocked = FALSE]
               ELSE lockAndSpawn(s, [s.piece EXCEPT !.row = s.piece.row + 1], draw)
          ELSE lockAndSpawn(s, s.piece, draw)

reduceMoveDown(s, draw) ==
  IF s.status # "playing" \/ s.piece = NoPiece THEN s
  ELSE LET shape == getShape(s.piece.type, s.piece.rotation)
       IN IF fits(s.board, shape, s.piece.row + 1, s.piece.col)
          THEN [s EXCEPT !.piece.row = s.piece.row + 1, !.lastLocked = FALSE]
          ELSE lockAndSpawn(s, s.piece, draw)

\* a rotation with a wall kick: one column to the right if it does not fit
reduceRotateCwKick(s) ==
  IF s.status # "playing" \/ s.piece = NoPiece THEN s
  ELSE LET rot == (s.piece.rotation + 1) % 4
           shape == getShape(s.piece.type, rot)
       IN IF fits(s.board, shape, s.piece.row, s.piece.col)
          THEN [s EXCEPT !.piece.rotation = rot, !.lastLocked = FALSE]
          ELSE IF fits(s.board, shape, s.piece.row, s.piece.col + 1)
          THEN [s EXCEPT !.piece.rotation = rot, !.piece.col = s.piece.col + 1,
                         !.lastLocked = FALSE]
          ELSE s

reduceRotateCw(s) ==
  IF s.status # "playing" \/ s.piece = NoPiece THEN s
  ELSE LET rot == (s.piece.rotation + 1) % 4
           shape == getShape(s.piece.type, rot)
       IN IF fits(s.board, shape, s.piece.row, s.piece.col)
          THEN [s EXCEPT !.piece.rotation = rot, !.lastLocked = FALSE]
          ELSE s

\* a counter-clockwise rotation that lifts the piece one row when it can
reduceRotateCcwLifts(s) ==
  IF s.status # "playing" \/ s.piece = NoPiece THEN s
  ELSE LET rot == (s.piece.rotation + 3) % 4
           shape == getShape(s.piece.type, rot)
       IN IF fits(s.board, shape, s.piece.row - 1, s.piece.col)
          THEN [s EXCEPT !.piece.rotation = rot, !.piece.row = s.piece.row - 1,
                         !.lastLocked = FALSE]
          ELSE IF fits(s.board, shape, s.piece.row, s.piece.col)
               THEN [s EXCEPT !.piece.rotation = rot, !.lastLocked = FALSE]
               ELSE s

\* a counter-clockwise rotation that turns the piece clockwise
reduceRotateCcwTurnsCw(s) ==
  IF s.status # "playing" \/ s.piece = NoPiece THEN s
  ELSE LET rot == (s.piece.rotation + 1) % 4
           shape == getShape(s.piece.type, rot)
       IN IF fits(s.board, shape, s.piece.row, s.piece.col)
          THEN [s EXCEPT !.piece.rotation = rot, !.lastLocked = FALSE]
          ELSE s

reduceRotateCcw(s) ==
  IF s.status # "playing" \/ s.piece = NoPiece THEN s
  ELSE LET rot == (s.piece.rotation + 3) % 4
           shape == getShape(s.piece.type, rot)
       IN IF fits(s.board, shape, s.piece.row, s.piece.col)
          THEN [s EXCEPT !.piece.rotation = rot, !.lastLocked = FALSE]
          ELSE s

\* a drop of one row at most
dropRowOne(board, shape, row, col) ==
  IF fits(board, shape, row + 1, col) THEN row + 1 ELSE row

\* while (fits(board, shape, row + 1, col)) row++
RECURSIVE dropRow(_, _, _, _)
dropRow(board, shape, row, col) ==
  IF fits(board, shape, row + 1, col) THEN dropRow(board, shape, row + 1, col)
  ELSE row

\* hard_drop that tests for a piece and not for the status
reduceHardDropAnyStatus(s, draw) ==
  IF s.piece = NoPiece THEN s
  ELSE LET shape == getShape(s.piece.type, s.piece.rotation)
           row == dropRow(s.board, shape, s.piece.row, s.piece.col)
           dropped == [s.piece EXCEPT !.row = row]
       IN lockAndSpawn(s, dropped, draw)

reduceHardDrop(s, draw) ==
  IF s.status # "playing" \/ s.piece = NoPiece THEN s
  ELSE LET shape == getShape(s.piece.type, s.piece.rotation)
           row == dropRow(s.board, shape, s.piece.row, s.piece.col)
           dropped == [s.piece EXCEPT !.row = row]
       IN lockAndSpawn(s, dropped, draw)

\* a hold that does not look at canHold
reduceHoldNoGuard(s, draw) ==
  IF s.status # "playing" \/ s.piece = NoPiece THEN s
  ELSE LET currentType == s.piece.type
           spawnType == IF s.holdPiece # "null" THEN s.holdPiece ELSE s.nextPiece
           nextPieceAfterHold == IF s.holdPiece # "null" THEN s.nextPiece ELSE draw
           spawnedPiece == [type |-> spawnType, row |-> SPAWN_ROW,
                            col |-> SPAWN_COL, rotation |-> 0]
           shape == getShape(spawnedPiece.type, 0)
       IN IF ~fits(s.board, shape, spawnedPiece.row, spawnedPiece.col)
          THEN [s EXCEPT !.status = "gameover", !.lastLocked = FALSE]
          ELSE [s EXCEPT !.piece = spawnedPiece, !.nextPiece = nextPieceAfterHold,
                         !.holdPiece = currentType, !.canHold = FALSE,
                         !.lastLocked = FALSE]

\* a hold that, with an empty slot, makes the newly drawn kind the active piece
reduceHoldSpawnsDraw(s, draw) ==
  IF s.status # "playing" \/ s.piece = NoPiece \/ ~s.canHold THEN s
  ELSE LET currentType == s.piece.type
           spawnType == IF s.holdPiece # "null" THEN s.holdPiece ELSE draw
           nextPieceAfterHold == s.nextPiece
           spawnedPiece == [type |-> spawnType, row |-> SPAWN_ROW,
                            col |-> SPAWN_COL, rotation |-> 0]
           shape == getShape(spawnedPiece.type, 0)
       IN IF ~fits(s.board, shape, spawnedPiece.row, spawnedPiece.col)
          THEN [s EXCEPT !.status = "gameover", !.lastLocked = FALSE]
          ELSE [s EXCEPT !.piece = spawnedPiece, !.nextPiece = nextPieceAfterHold,
                         !.holdPiece = currentType, !.canHold = FALSE,
                         !.lastLocked = FALSE]

\* a hold that tests the swapped-in piece where the active piece is
reduceHoldInPlace(s, draw) ==
  IF s.status # "playing" \/ s.piece = NoPiece \/ ~s.canHold THEN s
  ELSE LET currentType == s.piece.type
           spawnType == IF s.holdPiece # "null" THEN s.holdPiece ELSE s.nextPiece
           nextPieceAfterHold == IF s.holdPiece # "null" THEN s.nextPiece ELSE draw
           spawnedPiece == [type |-> spawnType, row |-> SPAWN_ROW,
                            col |-> SPAWN_COL, rotation |-> 0]
           shape == getShape(spawnedPiece.type, 0)
       IN IF ~fits(s.board, shape, s.piece.row, s.piece.col)
          THEN [s EXCEPT !.status = "gameover", !.lastLocked = FALSE]
          ELSE [s EXCEPT !.piece = spawnedPiece, !.nextPiece = nextPieceAfterHold,
                         !.holdPiece = currentType, !.canHold = FALSE,
                         !.lastLocked = FALSE]

\* a hold that fills the slot before it finds the spawn blocked
reduceHoldCommitsOnFail(s, draw) ==
  IF s.status # "playing" \/ s.piece = NoPiece \/ ~s.canHold THEN s
  ELSE LET currentType == s.piece.type
           spawnType == IF s.holdPiece # "null" THEN s.holdPiece ELSE s.nextPiece
           nextPieceAfterHold == IF s.holdPiece # "null" THEN s.nextPiece ELSE draw
           spawnedPiece == [type |-> spawnType, row |-> SPAWN_ROW,
                            col |-> SPAWN_COL, rotation |-> 0]
           shape == getShape(spawnedPiece.type, 0)
       IN IF ~fits(s.board, shape, spawnedPiece.row, spawnedPiece.col)
          THEN [s EXCEPT !.status = "gameover", !.holdPiece = currentType, !.canHold = FALSE, !.lastLocked = FALSE]
          ELSE [s EXCEPT !.piece = spawnedPiece, !.nextPiece = nextPieceAfterHold,
                         !.holdPiece = currentType, !.canHold = FALSE,
                         !.lastLocked = FALSE]

reduceHold(s, draw) ==
  IF s.status # "playing" \/ s.piece = NoPiece \/ ~s.canHold THEN s
  ELSE LET currentType == s.piece.type
           spawnType == IF s.holdPiece # "null" THEN s.holdPiece ELSE s.nextPiece
           nextPieceAfterHold == IF s.holdPiece # "null" THEN s.nextPiece ELSE draw
           spawnedPiece == [type |-> spawnType, row |-> SPAWN_ROW,
                            col |-> SPAWN_COL, rotation |-> 0]
           shape == getShape(spawnedPiece.type, 0)
       IN IF ~fits(s.board, shape, spawnedPiece.row, spawnedPiece.col)
          THEN [s EXCEPT !.status = "gameover", !.lastLocked = FALSE]
          ELSE [s EXCEPT !.piece = spawnedPiece, !.nextPiece = nextPieceAfterHold,
                         !.holdPiece = currentType, !.canHold = FALSE,
                         !.lastLocked = FALSE]

\* a tick that moves the piece down and leaves the locking to move_down
reduceTickNeverLocks(s, draw) ==
  IF s.status # "playing" \/ s.piece = NoPiece THEN s
  ELSE LET shape == getShape(s.piece.type, s.piece.rotation)
       IN IF fits(s.board, shape, s.piece.row + 1, s.piece.col)
          THEN [s EXCEPT !.piece.row = s.piece.row + 1, !.lastLocked = FALSE]
          ELSE s

\* a tick that locks the piece where it is
reduceTickLocks(s, draw) ==
  IF s.status # "playing" THEN s
  ELSE lockAndSpawn(s, s.piece, draw)

reduceTick(s, draw) ==
  IF s.status # "playing" THEN s
  ELSE reduceMoveDown(s, draw)

ActionTypes == {"start", "pause", "resume", "restart", "move_left", "move_right",
                "move_down", "rotate_cw", "rotate_ccw", "hard_drop", "hold", "tick"}

gameReducer(s, type, draw) ==
  CASE type = "start" -> reduceStart(s, draw)
    [] type = "pause" -> reducePause(s)
    [] type = "resume" -> reduceResume(s)
    [] type = "restart" -> reduceRestart(s, draw)
    [] type = "move_left" -> reduceMoveLeft(s)
    [] type = "move_right" -> reduceMoveRight(s)
    [] type = "move_down" -> reduceMoveDown(s, draw)
    [] type = "rotate_cw" -> reduceRotateCw(s)
    [] type = "rotate_ccw" -> reduceRotateCcw(s)
    [] type = "hard_drop" -> reduceHardDrop(s, draw)
    [] type = "hold" -> reduceHold(s, draw)
    [] type = "tick" -> reduceTick(s, draw)
    [] OTHER -> s

(***************************************************************************)
(* renderer.ts getGhostRow (lines 87-95): the row of the ghost piece that  *)
(* draw() shows under the active piece of a playing state.  boardFits is   *)
(* the game module's fits under the name the renderer imports it by.       *)
(***************************************************************************)
boardFits(board, shape, row, col) == fits(board, shape, row, col)

\* while (boardFits(board, shape, row + 1, piece.col)) row++
RECURSIVE ghostRowFrom(_, _, _, _)
ghostRowFrom(board, shape, row, col) ==
  IF boardFits(board, shape, row + 1, col) THEN ghostRowFrom(board, shape, row + 1, col)
  ELSE row

\* a ghost row that is at most one row under the piece (if for while)
getGhostRowOneStep(board, piece) ==
  LET shape == getShape(piece.type, piece.rotation)
      row == piece.row
  IN IF boardFits(board, shape, row + 1, piece.col) THEN row + 1 ELSE row

getGhostRow(board, piece) ==
  LET shape == getShape(piece.type, piece.rotation)
  IN ghostRowFrom(board, shape, piece.row, piece.col)

(***************************************************************************)
(* main.ts dispatch (lines 58-93): the reducer applied to `state`, then    *)
(* the sound cues derived from the snapshots before and after.  A cue is   *)
(* the name of the audio function called; scorePopValue is assigned with   *)
(* the line-clear cue and kept otherwise.                                  *)
(***************************************************************************)
\* a line-clear cue that looks at lastClearedLines alone
lineClearCueNoScoreTest(prev, s) == s.lastClearedLines > 0

\* the condition of lines 88-92
lineClearCue(prev, s) == s.score > prev.score /\ s.lastClearedLines > 0

cuesOf(prev, type, s) ==
  {c \in {"playHardDrop", "playMove", "playRotate", "playSoftDrop", "playLock",
          "playHold", "playGameOver", "playLineClear"} :
     CASE c = "playHardDrop" -> type = "hard_drop" /\ s.status = "playing"
       [] c = "playMove" ->
            /\ type \in {"move_left", "move_right"}
            /\ prev.piece # NoPiece /\ s.piece # NoPiece /\ s.piece.col # prev.piece.col
       [] c = "playRotate" ->
            /\ type \in {"rotate_cw", "rotate_ccw"}
            /\ prev.piece # NoPiece /\ s.piece # NoPiece
            /\ s.piece.rotation # prev.piece.rotation
       [] c = "playSoftDrop" ->
            /\ type = "move_down" /\ prev.piece # NoPiece /\ s.piece # NoPiece
            /\ ~s.lastLocked
            /\ s.piece.row > prev.piece.row
       [] c = "playLock" -> s.lastLocked /\ s.lastClearedLines = 0
       [] c = "playHold" -> type = "hold" /\ prev.holdPiece # s.holdPiece
       [] c = "playGameOver" -> prev.status # "gameover" /\ s.status = "gameover"
       [] c = "playLineClear" -> lineClearCue(prev, s)}

\* the module state after the cues of lines 63-92, s being the new `state`
afterCues(m, type, draw, s) ==
  [state |-> s, prevState |-> m.state, lastAction |-> type,
   cues |-> cuesOf(m.state, type, s),
   scorePopValue |-> IF lineClearCue(m.state, s) THEN scoreAddFor(s.lastClearedLines)
                     ELSE m.scorePopValue,
   issued |-> Append(m.issued, <<type, draw>>)]

\* a dispatch that applies the reducer to the snapshot of the dispatch before
dispatchOnStale(m, type, draw) ==
  CHOOSE r \in {afterCues(m, type, draw, s) :
                  s \in {gameReducer(m.prevState, type, draw)}} : TRUE

\* (the reducer's result is bound once, as runKeys binds it)
dispatchOn(m, type, draw) ==
  CHOOSE r \in {afterCues(m, type, draw, s) :
                  s \in {gameReducer(m.state, type, draw)}} : TRUE

\* dispatch(calls[i]); dispatch(calls[i + 1]); ... in this order, each on
\* the module state the one before left
RECURSIVE dispatchEach(_, _, _)
dispatchEach(m, calls, i) ==
  IF i > Len(calls) THEN m
  ELSE CHOOSE r \in {dispatchEach(m1, calls, i + 1) :
                       m1 \in {dispatchOn(m, calls[i][1], calls[i][2])}} : TRUE

(***************************************************************************)
(* Play sequences.  main.ts dispatches one action after the other on its   *)
(* `state`; a placement is the key sequence rotate_cw^rot, move_left or    *)
(* move_right up to column col, hard_drop.  The states the exploration     *)
(* starts from are all computed by gameReducer from createInitialState,    *)
(* so each of them is a state the program reaches.                         *)
(***************************************************************************)
repeatKey(type, n) == [i \in 1..n |-> <<type, "I">>]

\* the keys that rotate the piece at the spawn position to rot and move it
\* to column col
positionKeys(rot, col) ==
  repeatKey("rotate_cw", rot)
  \o (IF col < SPAWN_COL THEN repeatKey("move_left", SPAWN_COL - col)
      ELSE repeatKey("move_right", col - SPAWN_COL))

\* seq[i] = <<kind, rot, col>>: the i-th piece of the game is of that kind
\* and is hard-dropped at that rotation and column; the lock of piece i
\* draws the kind of piece i+2 (piece i+1 is nextPiece already)
kindAt(seq, i, tail) == IF i <= Len(seq) THEN seq[i][1] ELSE tail[i - Len(seq)]

RECURSIVE placementKeys(_, _, _)
placementKeys(seq, i, tail) ==
  IF i > Len(seq) THEN <<>>
  ELSE positionKeys(seq[i][2], seq[i][3])
       \o << <<"hard_drop", kindAt(seq, i + 2, tail)>> >>
       \o placementKeys(seq, i + 1, tail)

\* s after the dispatch of keys[lo], ..., keys[hi] (<<action type, draw>>)
RECURSIVE runKeys(_, _, _, _)
runKeys(s, keys, lo, hi) ==
  IF lo > hi THEN s
  ELSE IF lo = hi THEN gameReducer(s, keys[lo][1], keys[lo][2])
  ELSE LET mid == (lo + hi) \div 2
       IN CHOOSE r \in {runKeys(m, keys, mid + 1, hi) :
                         m \in {runKeys(s, keys, lo, mid)}} : TRUE

\* the state main.ts holds after construction with first kind `first` and
\* the dispatch of every key of keys in order
afterKeys(first, keys) ==
  CHOOSE r \in {runKeys(s, k, 1, Len(k)) :
                  s \in {createInitialState(first)}, k \in {keys}} : TRUE

\* eight O pieces fill columns 1..8 of rows 16..19, a vertical I column 9
WellLeft ==
  << <<"O", 0, 1>>, <<"O", 0, 3>>, <<"O", 0, 5>>, <<"O", 0, 7>>,
     <<"O", 0, 1>>, <<"O", 0, 3>>, <<"O", 0, 5>>, <<"O", 0, 7>>,
     <<"I", 1, 7>> >>

\* the same, completed by a vertical I in column 0: four rows cleared
Tetris == WellLeft \o << <<"I", 1, -2>> >>

\* I on row 19 over columns 6..9, O on top of it, a vertical Z hanging over
\* the hole (18,9), vertical I pieces in columns 1..5
Overhang ==
  << <<"I", 0, 6>>, <<"O", 0, 6>>, <<"Z", 1, 7>>,
     <<"I", 1, -1>>, <<"I", 1, 0>>, <<"I", 1, 1>>, <<"I", 1, 2>>, <<"I", 1, 3>> >>

\* I on row 19 over columns 6..9, a T over columns 0..2 of row 19, five
\* vertical I pieces that fill column 5 up to row 0: of the spawn cells only
\* those of an O are free, and an O dropped from there completes row 19
TopOut ==
  << <<"I", 0, 6>>, <<"T", 0, 0>>,
     <<"I", 1, 3>>, <<"I", 1, 3>>, <<"I", 1, 3>>, <<"I", 1, 3>>, <<"I", 1, 3>> >>

\* two Tetrises, then one row cleared by I, I, O: linesCleared = 9
NineLines ==
  Tetris \o Tetris \o << <<"I", 0, 0>>, <<"I", 0, 4>>, <<"O", 0, 8>>, <<"I", 0, 0>> >>

\* row 19 filled in every column but column 3: I in columns 4..7, O in
\* columns 8..9, J in columns 0..2
GapAtThree == << <<"I", 0, 4>>, <<"O", 0, 8>>, <<"J", 0, 0>> >>

\* row 19 filled in every column but columns 3 and 4: I in columns 5..8,
\* J in columns 0..2, a vertical I in column 9
GapAtThreeFour == << <<"I", 0, 5>>, <<"J", 0, 0>>, <<"I", 1, 7>> >>

\* a play, and where its last piece is left: rotated to rot, moved to
\* column col and down rows lower.  The two pieces after seq are of the
\* kinds tail[1], tail[2].
ScenarioPlays ==
  { [seq |-> WellLeft, tail |-> <<"I", "O">>, rot |-> 1, col |-> 0 - 1, down |-> 0],
    [seq |-> Overhang, tail |-> <<"I", "O">>, rot |-> 1, col |-> 0 - 1, down |-> 0],
    [seq |-> Overhang \o << <<"T", 0, 6>> >>, tail |-> <<"I", "T">>,
     rot |-> 1, col |-> 0 - 1, down |-> 0],
    [seq |-> TopOut, tail |-> <<"O", "I">>, rot |-> 0, col |-> 3, down |-> 0],
    [seq |-> NineLines, tail |-> <<"I", "O">>, rot |-> 0, col |-> 4, down |-> 0],
    [seq |-> << <<"I", 0, 0>>, <<"I", 0, 4>> >>, tail |-> <<"O", "T">>,
     rot |-> 0, col |-> 8, down |-> 17] }

\* the plays of the end-to-end scenario of SpecGap: an O at the spawn
\* position over a bottom row with a gap
GapPlays ==
  { [seq |-> GapAtThree, tail |-> <<"O", "I">>, rot |-> 0, col |-> 3, down |-> 0],
    [seq |-> GapAtThreeFour, tail |-> <<"O", "I">>, rot |-> 0, col |-> 3, down |-> 0] }

\* Enter, the placements of p.seq, then the keys that leave the last piece
scenarioOf(p) ==
  afterKeys(kindAt(p.seq, 1, p.tail),
            << <<"start", kindAt(p.seq, 2, p.tail)>> >>
            \o placementKeys(p.seq, 1, p.tail)
            \o positionKeys(p.rot, p.col)
            \o repeatKey("move_down", p.down))

Scenarios == {scenarioOf(p) : p \in ScenarioPlays}

(***************************************************************************)
(* The state machine: main.ts holds `state` (line 28) and every dispatch   *)
(* replaces it by gameReducer(state, action) (lines 58-61).                *)
(***************************************************************************)
InitStates == {createInitialState(d) : d \in DrawKinds} \cup Scenarios

NoProbe == [type |-> "null", rotation |-> 0, row |-> 0, col |-> 0, result |-> FALSE]

NoTiming == [level |-> 0, delay |-> 0, other |-> 0, otherDelay |-> 0]

\* SpecMain alone keeps the log
NoLog == [origin |-> NoPiece, calls |-> <<>>]

NoEvent == [by |-> "none", code |-> "none", repeat |-> FALSE, due |-> FALSE]

\* SpecFall alone counts the ticks one piece has taken
NoFall == [ticks |-> 0, locked |-> FALSE]

Init ==
  /\ state \in InitStates
  /\ prevState = state
  /\ lastAction = "none"
  /\ steps = 0
  /\ probe = NoProbe
  /\ timing = NoTiming
  /\ cues = {}
  /\ scorePopValue = 0
  /\ event = NoEvent
  /\ log = NoLog
  /\ fall = NoFall

\* main.ts's module state as one record; issued collects the dispatch calls
\* of the handler that is running
Main ==
  [state |-> state, prevState |-> prevState, lastAction |-> lastAction,
   cues |-> cues, scorePopValue |-> scorePopValue, issued |-> <<>>]

\* the module state after a handler that started in Main
SetMain(m) ==
  /\ state' = m.state
  /\ prevState' = m.prevState
  /\ lastAction' = m.lastAction
  /\ cues' = m.cues
  /\ scorePopValue' = m.scorePopValue

dispatch(type, draw) ==
  /\ steps < MaxSteps
  /\ \E m \in {dispatchOn(Main, type, draw)} : SetMain(m)
  /\ steps' = steps + 1
  /\ UNCHANGED <<probe, timing, event, log, fall>>

Start == \E draw \in DrawKinds : dispatch("start", draw)
Pause == dispatch("pause", "I")
Resume == dispatch("resume", "I")
Restart == \E draw \in DrawKinds : dispatch("restart", draw)
MoveLeft == dispatch("move_left", "I")
MoveRight == dispatch("move_right", "I")
MoveDown == \E draw \in DrawKinds : dispatch("move_down", draw)
RotateCw == dispatch("rotate_cw", "I")
RotateCcw == dispatch("rotate_ccw", "I")
HardDrop == \E draw \in DrawKinds : dispatch("hard_drop", draw)
Hold == \E draw \in DrawKinds : dispatch("hold", draw)
Tick == \E draw \in DrawKinds : dispatch("tick", draw)

Next ==
  \/ Start
  \/ Pause
  \/ Resume
  \/ Restart
  \/ MoveLeft
  \/ MoveRight
  \/ MoveDown
  \/ RotateCw
  \/ RotateCcw
  \/ HardDrop
  \/ Hold
  \/ Tick

Spec == Init /\ [][Next]_vars

(***************************************************************************)
(* SpecFits: fits as a pure function.  The board is that of any state the  *)
(* exploration starts from; the shape is any rotation of any tetromino,    *)
(* the position any position in or around the board.                       *)
(***************************************************************************)
ProbeRows == (0 - 2)..ROWS
ProbeCols == (0 - 3)..COLS

FitsCall ==
  /\ probe = NoProbe
  /\ \E i \in 1..Len(TETROMINO_TYPES), rotation \in 0..3, row \in ProbeRows, col \in ProbeCols :
       probe' = [type |-> TETROMINO_TYPES[i], rotation |-> rotation, row |-> row, col |-> col,
                 result |-> fits(state.board, getShape(TETROMINO_TYPES[i], rotation), row, col)]
  /\ UNCHANGED <<state, prevState, lastAction, steps, timing, cues, scorePopValue,
                 event, log, fall>>

SpecFits == Init /\ [][FitsCall]_vars

(***************************************************************************)
(* SpecStart: the start case of gameReducer as a pure function of the      *)
(* state it is given.  main.ts only ever starts on the empty board of      *)
(* createInitialState, where the first piece always fits; the reducer is   *)
(* exported and decides the other case too.  The idle states given to it   *)
(* here carry the board, score and counters of the states the exploration  *)
(* of Spec starts from, or a board with one filled cell in the top rows.   *)
(***************************************************************************)
OneCellBoards ==
  {[createEmptyBoard EXCEPT ![r][c] = "T"] : r \in 0..2, c \in 0..(COLS - 1)}

StartInputs ==
  {[s EXCEPT !.status = "idle", !.piece = NoPiece, !.nextPiece = TETROMINO_TYPES[i]] :
     s \in InitStates, i \in 1..Len(TETROMINO_TYPES)}
  \cup {[createInitialState(TETROMINO_TYPES[i]) EXCEPT !.board = b] :
          b \in OneCellBoards, i \in 1..Len(TETROMINO_TYPES)}

InitStart ==
  /\ state \in StartInputs
  /\ prevState = state
  /\ lastAction = "none"
  /\ steps = 0
  /\ probe = NoProbe
  /\ timing = NoTiming
  /\ cues = {}
  /\ scorePopValue = 0
  /\ event = NoEvent
  /\ log = NoLog
  /\ fall = NoFall

StartCall == steps = 0 /\ Start

SpecStart == InitStart /\ [][StartCall]_vars

(***************************************************************************)
(* SpecGap: the dispatch of Spec, from the two boards whose bottom row has *)
(* a gap under the active O.                                               *)
(***************************************************************************)
InitGap ==
  /\ state \in {scenarioOf(p) : p \in GapPlays}
  /\ prevState = state
  /\ lastAction = "none"
  /\ steps = 0
  /\ probe = NoProbe
  /\ timing = NoTiming
  /\ cues = {}
  /\ scorePopValue = 0
  /\ event = NoEvent
  /\ log = NoLog
  /\ fall = NoFall

SpecGap == InitGap /\ [][Next]_vars

(***************************************************************************)
(* SpecDelay: getFallDelayMs as a pure function, called with two levels.   *)
(***************************************************************************)
DelayCall ==
  /\ timing = NoTiming
  /\ \E level \in 1..MaxLevel, other \in 1..MaxLevel :
       timing' = [level |-> level, delay |-> getFallDelayMs(level),
                  other |-> other, otherDelay |-> getFallDelayMs(other)]
  /\ UNCHANGED <<state, prevState, lastAction, steps, probe, cues, scorePopValue,
                 event, log, fall>>

SpecDelay == Init /\ [][DelayCall]_vars

(***************************************************************************)
(* SpecMain: main.ts as the browser drives it.  A behaviour is a sequence  *)
(* of events, each handled to completion before the next one: a keydown    *)
(* event goes through the listener of attachKeyboard (input.ts 50-60) to   *)
(* onAction (main.ts 216-229), an animation frame to gameLoop (main.ts     *)
(* 192-205).  Whether a frame finds the fall delay elapsed (now - lastTick *)
(* >= delay) is the input `due`.                                           *)
(***************************************************************************)
\* the codes of the key table and one code that is not in it
KeyCodes ==
  {"ArrowLeft", "ArrowRight", "ArrowDown", "ArrowUp", "KeyA", "KeyD", "KeyS", "KeyW",
   "Space", "KeyC", "KeyP", "KeyR", "Enter", "KeyX"}

keyToAction(code) ==
  CASE code = "ArrowLeft" -> "move_left"
    [] code = "ArrowRight" -> "move_right"
    [] code = "ArrowDown" -> "move_down"
    [] code = "ArrowUp" -> "rotate_cw"
    [] code = "KeyA" -> "rotate_ccw"
    [] code = "KeyD" -> "rotate_cw"
    [] code = "KeyS" -> "move_down"
    [] code = "KeyW" -> "rotate_cw"
    [] code = "Space" -> "hard_drop"
    [] code = "KeyC" -> "hold"
    [] code = "KeyP" -> "pause"
    [] code = "KeyR" -> "restart"
    [] code = "Enter" -> "start"
    [] OTHER -> "null"

keyToGameAction(code, repeat) ==
  IF repeat
  THEN LET action == keyToAction(code)
       IN IF action # "null" /\ action \in {"move_left", "move_right", "move_down"}
          THEN action ELSE "null"
  ELSE keyToAction(code)

\* Enter that dispatches start alone, also when the game is over
onActionStartOnly(m, type, draw, draw2) ==
  dispatchEach(m,
    IF type = "pause"
    THEN << <<IF m.state.status = "playing" THEN "pause" ELSE "resume", draw>> >>
    ELSE << <<type, draw>> >>, 1)

\* P that dispatches pause in every status
onActionPauseOnly(m, type, draw, draw2) ==
  dispatchEach(m,
    IF type = "start" /\ m.state.status = "gameover"
    THEN << <<"restart", draw>>, <<"start", draw2>> >>
    ELSE << <<type, draw>> >>, 1)

\* the dispatch calls of the branch taken, made one after the other
onAction(m, type, draw, draw2) ==
  dispatchEach(m,
    IF type = "start" /\ m.state.status = "gameover"
    THEN << <<"restart", draw>>, <<"start", draw2>> >>
    ELSE IF type = "pause"
    THEN << <<IF m.state.status = "playing" THEN "pause" ELSE "resume", draw>> >>
    ELSE << <<type, draw>> >>, 1)

listener(m, code, repeat, draw, draw2) ==
  LET action == keyToGameAction(code, repeat)
  IN IF action # "null" THEN onAction(m, action, draw, draw2) ELSE m

gameLoop(m, due, draw) ==
  IF m.state.status = "playing" /\ m.state.piece # NoPiece
  THEN IF due THEN dispatchOn(m, "tick", draw) ELSE m
  ELSE m

\* the calls a handler issued, each with what made the handler issue it: the
\* action the listener handed to onAction, or the timer
issuedBy(m, by) == [i \in 1..Len(m.issued) |-> <<m.issued[i][1], m.issued[i][2], by>>]

\* the action types whose case of gameReducer calls randomType()
Drawing == {"start", "restart", "move_down", "hard_drop", "hold", "tick"}

\* the two plays SpecMain starts from besides the fresh page: an O over the
\* board of TopOut, and the game over that its hard drop leaves
MainPlays ==
  { [seq |-> TopOut, tail |-> <<"O", "I">>, rot |-> 0, col |-> 3, down |-> 0],
    [seq |-> TopOut \o << <<"O", 0, 3>> >>, tail |-> <<"I", "O">>,
     rot |-> 0, col |-> 3, down |-> 0] }

MainStates == {createInitialState(d) : d \in DrawKinds} \cup {scenarioOf(p) : p \in MainPlays}

InitMain ==
  /\ state \in MainStates
  /\ prevState = state
  /\ lastAction = "none"
  /\ steps = 0
  /\ probe = NoProbe
  /\ timing = NoTiming
  /\ cues = {}
  /\ scorePopValue = 0
  /\ event = NoEvent
  /\ log = [origin |-> state, calls |-> <<>>]
  /\ fall = NoFall

\* the draws that the handler does not use are fixed
KeyDown ==
  /\ steps < MaxEvents
  /\ \E code \in KeyCodes, repeat \in BOOLEAN, draw \in DrawKinds, draw2 \in DrawKinds :
       LET action == keyToGameAction(code, repeat)
       IN /\ action \notin Drawing => draw = "I"
          /\ ~(action = "start" /\ state.status = "gameover") => draw2 = "I"
          /\ \E m \in {listener(Main, code, repeat, draw, draw2)} :
               /\ SetMain(m)
               /\ log' = [log EXCEPT !.calls = @ \o issuedBy(m, action)]
          /\ event' = [by |-> "key", code |-> code, repeat |-> repeat, due |-> FALSE,
                       before |-> state]
  /\ steps' = steps + 1
  /\ UNCHANGED <<probe, timing, fall>>

Frame ==
  /\ steps < MaxEvents
  /\ \E due \in BOOLEAN, draw \in DrawKinds :
       /\ ~due => draw = "I"
       /\ \E m \in {gameLoop(Main, due, draw)} :
            /\ SetMain(m)
            /\ log' = [log EXCEPT !.calls = @ \o issuedBy(m, "timer")]
       /\ event' = [by |-> "timer", code |-> "none", repeat |-> FALSE, due |-> due,
                    before |-> state]
  /\ steps' = steps + 1
  /\ UNCHANGED <<probe, timing, fall>>

NextMain == KeyDown \/ Frame

SpecMain == InitMain /\ [][NextMain]_vars

(***************************************************************************)
(* SpecFall: one lock cycle.  The exploration starts with a piece at the   *)
(* spawn row, on the empty board of a new game or on a played board, and   *)
(* dispatches ticks (gameLoop), sideways moves, rotations and hold         *)
(* (onAction) in any order until a tick locks a piece or the game leaves   *)
(* status playing.  fall.ticks counts the ticks.                           *)
(***************************************************************************)
\* the played board SpecFall starts from: an O at the spawn position over the
\* board of TopOut, free to fall on either side of the filled column 5; the
\* I that a hold would bring in does not fit
FallPlays ==
  { [seq |-> TopOut, tail |-> <<"O", "I">>, rot |-> 0, col |-> 3, down |-> 0] }

\* a new game with an I as the first piece and an O as the next, and the plays
FallStates ==
  {gameReducer(createInitialState("I"), "start", "O")}
    \cup {scenarioOf(p) : p \in FallPlays}

InitFall ==
  /\ state \in FallStates
  /\ prevState = state
  /\ lastAction = "none"
  /\ steps = 0
  /\ probe = NoProbe
  /\ timing = NoTiming
  /\ cues = {}
  /\ scorePopValue = 0
  /\ event = NoEvent
  /\ log = NoLog
  /\ fall = NoFall

fallDispatch(type, draw) ==
  /\ state.status = "playing"
  /\ ~fall.locked
  /\ \E m \in {dispatchOn(Main, type, draw)} :
       /\ SetMain(m)
       /\ fall' = [ticks |-> fall.ticks + (IF type = "tick" THEN 1 ELSE 0),
                   locked |-> type = "tick" /\ m.state.lastLocked]
  /\ UNCHANGED <<steps, probe, timing, event, log>>

FallTick == \E draw \in DrawKinds : fallDispatch("tick", draw)
FallMoveLeft == fallDispatch("move_left", "I")
FallMoveRight == fallDispatch("move_right", "I")
FallRotateCw == fallDispatch("rotate_cw", "I")
FallRotateCcw == fallDispatch("rotate_ccw", "I")
FallHold == \E draw \in DrawKinds : fallDispatch("hold", draw)

NextFall ==
  \/ FallTick
  \/ FallMoveLeft
  \/ FallMoveRight
  \/ FallRotateCw
  \/ FallRotateCcw
  \/ FallHold

SpecFall == InitFall /\ [][NextFall]_vars

(***************************************************************************)
(* SpecTicks: the timer alone.  From a playing state no key is pressed and *)
(* every step is a frame of gameLoop whose tick is due.  gameLoop asks for *)
(* the next frame before anything else (requestAnimationFrame) and `now`   *)
(* grows without bound, so a due frame keeps coming while the game is      *)
(* playing: weak fairness of TimerTick.                                    *)
(***************************************************************************)
\* two vertical I pieces fill column 3 from row 12 down: every piece that
\* falls from the spawn position comes to rest on that column
TallStack == << <<"I", 1, 1>>, <<"I", 1, 1>> >>

\* the played boards SpecTicks starts from: an I and an O at the spawn
\* position over TallStack, and an O over the board of TopOut, which falls
\* to row 19 and completes it
TickPlays ==
  { [seq |-> TallStack, tail |-> <<"I", "O">>, rot |-> 0, col |-> 3, down |-> 0],
    [seq |-> TallStack, tail |-> <<"O", "I">>, rot |-> 0, col |-> 3, down |-> 0],
    [seq |-> TopOut, tail |-> <<"O", "I">>, rot |-> 0, col |-> 3, down |-> 0] }

TickStates == {scenarioOf(p) : p \in TickPlays}

InitTicks ==
  /\ state \in TickStates
  /\ prevState = state
  /\ lastAction = "none"
  /\ steps = 0
  /\ probe = NoProbe
  /\ timing = NoTiming
  /\ cues = {}
  /\ scorePopValue = 0
  /\ event = NoEvent
  /\ log = NoLog
  /\ fall = NoFall

TimerTick ==
  /\ state.status = "playing"
  /\ state.piece # NoPiece
  /\ \E draw \in DrawKinds : \E m \in {gameLoop(Main, TRUE, draw)} : SetMain(m)
  /\ UNCHANGED <<steps, probe, timing, event, log, fall>>

SpecTicks == InitTicks /\ [][TimerTick]_vars /\ WF_vars(TimerTick)

TypeOK ==
  /\ state.status \in {"idle", "playing", "paused", "gameover"}
  /\ DOMAIN state.board = 0..(ROWS - 1)
  /\ steps \in 0..MaxSteps

(***************************************************************************)
(* Vocabulary of the properties.  These definitions restate what the       *)
(* specification says in terms of sets of cells; none of them uses fits,   *)
(* lockPiece or the reducer.                                               *)
(***************************************************************************)
Dispatched == lastAction # "none"

\* the occupied cells <<r, c>> of a shape bitmap, 0-based
OccupiedCells(shape) ==
  {rc \in (0..(Len(shape) - 1)) \X (0..(Len(shape[1]) - 1)) : shape[rc[1] + 1][rc[2] + 1] = 1}

\* the board cells a placement covers
CellsAt(type, rotation, row, col) ==
  {<<row + rc[1], col + rc[2]>> : rc \in OccupiedCells(getShape(type, rotation))}

InBounds(cell) == cell[1] >= 0 /\ cell[1] < ROWS /\ cell[2] >= 0 /\ cell[2] < COLS

\* every occupied cell maps to an in-bounds board cell that is empty
Placeable(board, type, rotation, row, col) ==
  \A cell \in CellsAt(type, rotation, row, col) :
    InBounds(cell) /\ board[cell[1]][cell[2]] = EMPTY_CELL

\* the same for the occupied cells occ of the shape, 0-based
PlaceableCells(board, occ, row, col) ==
  \A rc \in occ :
    /\ InBounds(<<row + rc[1], col + rc[2]>>)
    /\ board[row + rc[1]][col + rc[2]] = EMPTY_CELL

BoardEmpty(board) ==
  \A r \in 0..(ROWS - 1) : \A c \in 0..(COLS - 1) : board[r][c] = EMPTY_CELL

\* the fields pause and resume are said to preserve
Core(s) == <<s.board, s.piece, s.nextPiece, s.holdPiece, s.canHold, s.score,
             s.level, s.linesCleared>>

(***************************************************************************)
(* C1.  In a state whose status is not playing (idle, paused, gameover),   *)
(* every action other than start, resume and restart returns the state     *)
(* unchanged; in status idle so does every action except start and         *)
(* restart (resume included).                                              *)
(***************************************************************************)
C1_StoppedIsNoOp ==
  /\ (Dispatched /\ prevState.status # "playing"
        /\ lastAction \notin {"start", "resume", "restart"}) => state = prevState
  /\ (Dispatched /\ prevState.status = "idle"
        /\ lastAction \notin {"start", "restart"}) => state = prevState

\* a hard_drop dispatched on a paused game that holds a piece
C1_Witness ==
  /\ lastAction = "hard_drop"
  /\ prevState.status = "paused"
  /\ prevState.piece # NoPiece
  /\ state = prevState

(***************************************************************************)
(* C2.  Game over is terminal: from a state with status gameover every     *)
(* action except restart returns the state unchanged, so the status stays  *)
(* gameover until a restart is dispatched.                                 *)
(***************************************************************************)
C2_GameOverTerminal ==
  (Dispatched /\ prevState.status = "gameover" /\ lastAction # "restart")
    => (state = prevState /\ state.status = "gameover")

\* a resume dispatched on a game that is over
C2_Witness ==
  /\ prevState.status = "gameover"
  /\ lastAction = "resume"
  /\ state.status = "gameover"

(***************************************************************************)
(* C3.  restart, in any state, yields a fresh idle state: status idle,     *)
(* empty board, no active piece, no held piece, canHold, score 0,          *)
(* linesCleared 0, level 1, lastClearedLines 0, lastLocked false.          *)
(***************************************************************************)
C3_RestartIsFresh ==
  lastAction = "restart" =>
    /\ state.status = "idle"
    /\ BoardEmpty(state.board)
    /\ state.piece = NoPiece
    /\ state.holdPiece = "null"
    /\ state.canHold
    /\ state.score = 0
    /\ state.linesCleared = 0
    /\ state.level = 1
    /\ state.lastClearedLines = 0
    /\ ~state.lastLocked

\* a restart of a game that is over, with a score and a filled board
C3_Witness ==
  /\ lastAction = "restart"
  /\ prevState.status = "gameover"
  /\ prevState.score > 0
  /\ ~BoardEmpty(prevState.board)
  /\ state.status = "idle"

(***************************************************************************)
(* C4.  pause applies only in status playing and gives paused; resume      *)
(* applies only in status paused and gives playing; pause followed by      *)
(* resume gives back a state with the same board, piece, nextPiece,        *)
(* holdPiece, canHold, score, level and linesCleared.                      *)
(***************************************************************************)
C4_PauseResume ==
  LET paused == gameReducer(state, "pause", "I")
      resumed == gameReducer(paused, "resume", "I")
  IN /\ state.status # "playing" => paused = state
     /\ state.status # "paused" => gameReducer(state, "resume", "I") = state
     /\ state.status = "playing" =>
          /\ paused.status = "paused"
          /\ Core(paused) = Core(state)
          /\ resumed.status = "playing"
          /\ Core(resumed) = Core(state)
     /\ (lastAction = "pause" /\ prevState.status = "playing") =>
          (state.status = "paused" /\ Core(state) = Core(prevState))
     /\ (lastAction = "resume" /\ prevState.status = "paused") =>
          (state.status = "playing" /\ Core(state) = Core(prevState))

\* a game with a score and an active piece, paused and resumed
C4_Witness ==
  /\ lastAction = "resume"
  /\ prevState.status = "paused"
  /\ state.status = "playing"
  /\ state.piece # NoPiece
  /\ state.score > 0

(***************************************************************************)
(* C5.  fits(board, shape, row, col) is true exactly when every occupied   *)
(* cell of the shape maps to an in-bounds board cell that is empty; the    *)
(* unoccupied cells of the bitmap do not matter.  (SpecFits)               *)
(***************************************************************************)
C5_FitsIffPlaceable ==
  probe # NoProbe =>
    (probe.result <=> Placeable(state.board, probe.type, probe.rotation, probe.row, probe.col))

\* a vertical I whose empty bitmap columns hang out of the board on the
\* left, over a board with filled cells, and that fits
C5_Witness ==
  /\ probe # NoProbe
  /\ probe.type = "I"
  /\ probe.rotation = 1
  /\ probe.col = 0 - 2
  /\ probe.result
  /\ ~BoardEmpty(state.board)

(***************************************************************************)
(* Vocabulary of locking, again in terms of cells and rows only.           *)
(***************************************************************************)
Rows == 0..(ROWS - 1)

EmptyRow == [c \in 0..(COLS - 1) |-> EMPTY_CELL]

FullRows(board) == {r \in Rows : \A c \in 0..(COLS - 1) : board[r][c] # EMPTY_CELL}

\* the board with the cells of a placement set to the kind of the piece
StampAt(board, type, rotation, row, col) ==
  LET cells == CellsAt(type, rotation, row, col)
  IN [r \in Rows |-> [c \in 0..(COLS - 1) |->
        IF <<r, c>> \in cells THEN type ELSE board[r][c]]]

\* the lowest row a piece reaches by one-row descents that are all placeable
IsLandingRow(board, piece, r) ==
  LET occ == OccupiedCells(getShape(piece.type, piece.rotation))
  IN /\ r \in piece.row..(ROWS - 1)
     /\ ~PlaceableCells(board, occ, r + 1, piece.col)
     /\ \A q \in (piece.row + 1)..r : PlaceableCells(board, occ, q, piece.col)

LandingRow(board, piece) ==
  LET occ == OccupiedCells(getShape(piece.type, piece.rotation))
  IN CHOOSE r \in piece.row..(ROWS - 1) :
       /\ ~PlaceableCells(board, occ, r + 1, piece.col)
       /\ \A q \in (piece.row + 1)..r : PlaceableCells(board, occ, q, piece.col)

\* the board without its full rows: as many empty rows on top, the other
\* rows under them in their order
Cleared(board) ==
  LET full == FullRows(board)
      kept == Rows \ full
      k == Cardinality(full)
      from(r) == CHOOSE q \in kept : Cardinality({x \in kept : x > q}) = ROWS - 1 - r
  IN [r \in Rows |-> IF r < k THEN EmptyRow ELSE board[from(r)]]

\* the last action locked the active piece of prevState
LockStep ==
  /\ lastAction \in {"move_down", "tick", "hard_drop"}
  /\ prevState.status = "playing"
  /\ prevState.piece # NoPiece
  /\ \/ lastAction = "hard_drop"
     \/ ~Placeable(prevState.board, prevState.piece.type, prevState.piece.rotation,
                   prevState.piece.row + 1, prevState.piece.col)

\* the row it was locked at, and the board with the piece on it, full rows
\* still in place
LockedRow ==
  IF lastAction = "hard_drop" THEN LandingRow(prevState.board, prevState.piece)
  ELSE prevState.piece.row

Stamped ==
  StampAt(prevState.board, prevState.piece.type, prevState.piece.rotation,
          LockedRow, prevState.piece.col)

\* the score table of the specification
TableValue(k) ==
  CASE k = 0 -> 0 [] k = 1 -> 100 [] k = 2 -> 300 [] k = 3 -> 500 [] k = 4 -> 800

\* after a lock the next piece stands at (0,3) in rotation 0
NextSpawned ==
  /\ state.status = "playing"
  /\ state.piece = [type |-> prevState.nextPiece, row |-> 0, col |-> 3, rotation |-> 0]

\* after a lock the next piece is spawned if its cells at (0,3) are empty,
\* and the game is over with no active piece if they are not
SpawnedOrOver ==
  IF Placeable(state.board, prevState.nextPiece, 0, 0, 3) THEN NextSpawned
  ELSE state.status = "gameover" /\ state.piece = NoPiece

(***************************************************************************)
(* C6.  Locking a piece that completes exactly k full rows (k in 0..4)     *)
(* removes exactly those k rows, keeps the remaining rows in their order,  *)
(* shifted down, and puts k empty rows at the top, also when the full rows *)
(* are not adjacent; lastClearedLines equals k.                            *)
(***************************************************************************)
C6_LineClear ==
  LockStep =>
    LET stamped == Stamped
        full == FullRows(stamped)
        k == Cardinality(full)
    IN /\ k \in 0..4
       /\ state.lastClearedLines = k
       /\ DOMAIN state.board = Rows
       /\ \A r \in 0..(k - 1) : state.board[r] = EmptyRow
       /\ \A r \in Rows \ full :
            state.board[r + Cardinality({f \in full : f > r})] = stamped[r]

\* a lock that completes three rows with a row between them that stays
C6_Witness ==
  /\ LockStep
  /\ Cardinality(FullRows(Stamped)) = 3
  /\ \E f \in FullRows(Stamped), g \in FullRows(Stamped), r \in Rows \ FullRows(Stamped) :
       f < r /\ r < g
  /\ state.lastClearedLines = 3

(***************************************************************************)
(* C7.  Without a restart, every action that locks a piece and clears k    *)
(* rows adds the table value for k (0, 100, 300, 500, 800) to score and k  *)
(* to linesCleared, the lock that ends the game included; no action        *)
(* decreases score or linesCleared.                                        *)
(***************************************************************************)
C7_Scoring ==
  /\ (Dispatched /\ lastAction # "restart") =>
       (state.score >= prevState.score /\ state.linesCleared >= prevState.linesCleared)
  /\ LockStep =>
       LET k == Cardinality(FullRows(Stamped))
       IN /\ state.score = prevState.score + TableValue(k)
          /\ state.linesCleared = prevState.linesCleared + k

\* the lock that ends the game clears a row and scores 100
C7_Witness ==
  /\ LockStep
  /\ state.status = "gameover"
  /\ Cardinality(FullRows(Stamped)) = 1
  /\ state.score = prevState.score + 100

(***************************************************************************)
(* C8.  In every reachable state level = floor(linesCleared / 10) + 1,     *)
(* LINES_PER_LEVEL being 10: 9 lines give level 1, 10 lines level 2.       *)
(***************************************************************************)
C8_LevelOfLines ==
  /\ LINES_PER_LEVEL = 10
  /\ state.level = (state.linesCleared \div 10) + 1

\* the tenth line is cleared and the level goes from 1 to 2
C8_Witness ==
  /\ prevState.linesCleared = 9
  /\ prevState.level = 1
  /\ state.linesCleared = 10
  /\ state.level = 2

(***************************************************************************)
(* C9.  hard_drop in status playing moves the active piece straight down   *)
(* (same column and rotation) to the lowest row reachable by one-row       *)
(* descents that fit and locks it there in the same action (lastLocked     *)
(* true); the next piece is then spawned at (0,3) if its spawn cells are   *)
(* empty, and otherwise the game is over with no active piece.  On an      *)
(* empty board a horizontal I at row 0, col 3 ends with its four cells in  *)
(* row 19, lines cleared 0, score unchanged and the next piece at (0,3).   *)
(***************************************************************************)
C9_HardDrop ==
  (lastAction = "hard_drop" /\ prevState.status = "playing") =>
    /\ state.lastLocked
    /\ state.board = Cleared(Stamped)
    /\ SpawnedOrOver
    /\ (BoardEmpty(prevState.board)
          /\ prevState.piece = [type |-> "I", row |-> 0, col |-> 3, rotation |-> 0]) =>
         /\ \A r \in Rows : \A c \in 0..(COLS - 1) :
              state.board[r][c] = IF r = 19 /\ c \in 3..6 THEN "I" ELSE EMPTY_CELL
         /\ state.lastClearedLines = 0
         /\ state.score = prevState.score
         /\ NextSpawned

\* the horizontal I dropped from (0,3) on the empty board
C9_Witness ==
  /\ lastAction = "hard_drop"
  /\ prevState.status = "playing"
  /\ BoardEmpty(prevState.board)
  /\ prevState.piece = [type |-> "I", row |-> 0, col |-> 3, rotation |-> 0]
  /\ \A c \in 3..6 : state.board[19][c] = "I"
  /\ state.piece.row = 0 /\ state.piece.col = 3

\* C9 as stated: every hard_drop in status playing spawns the next piece
C9_AlwaysSpawns ==
  (lastAction = "hard_drop" /\ prevState.status = "playing") =>
    /\ state.lastLocked
    /\ state.board = Cleared(Stamped)
    /\ NextSpawned

(***************************************************************************)
(* C10.  move_down in status playing moves the active piece down exactly   *)
(* one row, without locking and without changing the board, when the       *)
(* placement one row lower fits; only when it does not fit is the piece    *)
(* locked at its current position: board stamped, lines cleared, next      *)
(* piece spawned or game over.                                             *)
(***************************************************************************)
C10_SoftDrop ==
  (lastAction = "move_down" /\ prevState.status = "playing") =>
    IF Placeable(prevState.board, prevState.piece.type, prevState.piece.rotation,
                 prevState.piece.row + 1, prevState.piece.col)
    THEN /\ state = [prevState EXCEPT !.piece.row = prevState.piece.row + 1,
                                      !.lastLocked = FALSE]
         /\ state.board = prevState.board
         /\ ~state.lastLocked
    ELSE /\ state.lastLocked
         /\ state.board =
              Cleared(StampAt(prevState.board, prevState.piece.type,
                              prevState.piece.rotation, prevState.piece.row,
                              prevState.piece.col))
         /\ state.lastClearedLines = Cardinality(FullRows(Stamped))
         /\ SpawnedOrOver

\* a piece is moved down one row and the next move_down, which has no room,
\* locks it where it is and clears a row
C10_Witness ==
  /\ lastAction = "move_down"
  /\ prevState.status = "playing"
  /\ ~prevState.lastLocked
  /\ prevState.piece.row > 0
  /\ ~Placeable(prevState.board, prevState.piece.type, prevState.piece.rotation,
                prevState.piece.row + 1, prevState.piece.col)
  /\ state.lastLocked
  /\ state.lastClearedLines = 1

(***************************************************************************)
(* C11.  rotate_cw / rotate_ccw in status playing set the rotation to      *)
(* (rotation + 1) mod 4 / (rotation + 3) mod 4, row and column kept, if    *)
(* and only if the rotated shape fits at the current position; otherwise   *)
(* the state is returned unchanged: no other position is tried.            *)
(***************************************************************************)
C11_Rotate ==
  (lastAction \in {"rotate_cw", "rotate_ccw"} /\ prevState.status = "playing") =>
    LET p == prevState.piece
        rot == IF lastAction = "rotate_cw" THEN (p.rotation + 1) % 4
               ELSE (p.rotation + 3) % 4
    IN IF Placeable(prevState.board, p.type, rot, p.row, p.col)
       THEN state = [prevState EXCEPT !.piece.rotation = rot, !.lastLocked = FALSE]
       ELSE state = prevState

\* a rotation refused at the left wall that would fit one column further
C11_Witness ==
  /\ lastAction = "rotate_cw"
  /\ prevState.status = "playing"
  /\ ~Placeable(prevState.board, prevState.piece.type,
                (prevState.piece.rotation + 1) % 4, prevState.piece.row,
                prevState.piece.col)
  /\ Placeable(prevState.board, prevState.piece.type,
               (prevState.piece.rotation + 1) % 4, prevState.piece.row,
               prevState.piece.col + 1)
  /\ state = prevState

(***************************************************************************)
(* C12.  move_left / move_right in status playing change the column of     *)
(* the active piece by exactly -1 / +1, with row, rotation, board and      *)
(* score unchanged, if and only if the shifted placement fits; otherwise   *)
(* the state is returned unchanged.                                        *)
(***************************************************************************)
C12_Move ==
  (lastAction \in {"move_left", "move_right"} /\ prevState.status = "playing") =>
    LET p == prevState.piece
        col == IF lastAction = "move_left" THEN p.col - 1 ELSE p.col + 1
    IN IF Placeable(prevState.board, p.type, p.rotation, p.row, col)
       THEN /\ state = [prevState EXCEPT !.piece.col = col, !.lastLocked = FALSE]
            /\ state.piece.row = p.row /\ state.piece.rotation = p.rotation
            /\ state.board = prevState.board /\ state.score = prevState.score
       ELSE state = prevState

\* a move to the right refused by a filled cell inside the board
C12_Witness ==
  /\ lastAction = "move_right"
  /\ prevState.status = "playing"
  /\ \A cell \in CellsAt(prevState.piece.type, prevState.piece.rotation,
                         prevState.piece.row, prevState.piece.col + 1) : InBounds(cell)
  /\ ~Placeable(prevState.board, prevState.piece.type, prevState.piece.rotation,
                prevState.piece.row, prevState.piece.col + 1)
  /\ state = prevState

\* the pre-state can hold, and the hold dispatched on it did not end the game
HeldOk ==
  /\ lastAction = "hold"
  /\ prevState.status = "playing"
  /\ prevState.canHold
  /\ state.status = "playing"

(***************************************************************************)
(* C13.  A hold dispatched while canHold is false returns the state        *)
(* unchanged; after a successful hold canHold is false, and within a game  *)
(* (no restart) canHold goes from false to true only in an action that     *)
(* locks a piece and spawns the next one.                                  *)
(***************************************************************************)
C13_HoldOncePerLock ==
  /\ (lastAction = "hold" /\ ~prevState.canHold) => state = prevState
  /\ HeldOk => ~state.canHold
  /\ (Dispatched /\ lastAction # "restart" /\ ~prevState.canHold /\ state.canHold)
       => (LockStep /\ NextSpawned)

\* after a hold, the lock of the swapped-in piece re-enables the hold
C13_Witness ==
  /\ ~prevState.canHold
  /\ prevState.holdPiece # "null"
  /\ LockStep
  /\ state.canHold

(***************************************************************************)
(* C14.  A successful hold puts the kind of the active piece into the      *)
(* hold slot and makes the new active piece, at the spawn position (0,3)   *)
(* with rotation 0, the previously held kind if the slot was occupied, and *)
(* the kind that was next if the slot was empty; in that case the newly    *)
(* drawn random kind becomes the next piece.                               *)
(***************************************************************************)
C14_Hold ==
  /\ HeldOk =>
       /\ state.holdPiece = prevState.piece.type
       /\ state.piece =
            [type |-> IF prevState.holdPiece # "null" THEN prevState.holdPiece
                      ELSE prevState.nextPiece,
             row |-> 0, col |-> 3, rotation |-> 0]
       /\ prevState.holdPiece # "null" => state.nextPiece = prevState.nextPiece
  /\ (state.status = "playing" /\ state.canHold) =>
       \A d \in DrawKinds :
         LET held == gameReducer(state, "hold", d)
         IN held.status = "playing" =>
              /\ held.holdPiece = state.piece.type
              /\ held.piece.type = IF state.holdPiece # "null" THEN state.holdPiece
                                   ELSE state.nextPiece
              /\ held.nextPiece = IF state.holdPiece # "null" THEN state.nextPiece ELSE d

\* a hold with an empty slot: the kind that was next becomes active, and a
\* different kind is drawn as the next one
C14_Witness ==
  /\ HeldOk
  /\ prevState.holdPiece = "null"
  /\ state.piece.type = prevState.nextPiece
  /\ state.nextPiece # prevState.nextPiece
  /\ state.holdPiece = prevState.piece.type

\* C14 as stated: with an empty slot the new active piece is the newly
\* drawn random kind
C14_ActiveIsDrawn ==
  (state.status = "playing" /\ state.canHold) =>
    \A d \in DrawKinds :
      LET held == gameReducer(state, "hold", d)
      IN held.status = "playing" =>
           /\ held.holdPiece = state.piece.type
           /\ held.piece = [type |-> IF state.holdPiece # "null" THEN state.holdPiece
                                     ELSE d,
                            row |-> 0, col |-> 3, rotation |-> 0]

(***************************************************************************)
(* C15.  There is an active piece in every state with status playing or    *)
(* paused (pause keeps the piece) and none in status idle.  A game ended   *)
(* by a lock or a start whose next piece does not fit has no active piece; *)
(* a game ended by a hold whose swapped-in piece does not fit keeps the    *)
(* piece that was active.                                                  *)
(***************************************************************************)
C15_ActivePiece ==
  /\ state.status \in {"playing", "paused"} => state.piece # NoPiece
  /\ state.status = "idle" => state.piece = NoPiece
  /\ (lastAction = "pause" /\ prevState.status = "playing") =>
       (state.status = "paused" /\ state.piece = prevState.piece)
  /\ (Dispatched /\ prevState.status # "gameover" /\ state.status = "gameover") =>
       IF lastAction = "hold" THEN state.piece = prevState.piece /\ state.piece # NoPiece
       ELSE state.piece = NoPiece

\* a paused game with its active piece
C15_Witness ==
  /\ lastAction = "pause"
  /\ state.status = "paused"
  /\ state.piece # NoPiece
  /\ state.piece = prevState.piece

\* C15 as stated: an active piece if and only if the status is playing
C15_PieceIffPlaying == (state.piece # NoPiece) <=> (state.status = "playing")

\* a hold that is not refused: the swapped-in piece is tried at the spawn
HoldAttempt ==
  /\ lastAction = "hold"
  /\ prevState.status = "playing"
  /\ prevState.canHold

\* the last action tried to make a piece active at the spawn position
SpawnAttempt ==
  \/ lastAction = "start" /\ prevState.status = "idle"
  \/ HoldAttempt
  \/ LockStep

\* the kind of that piece
Incoming ==
  IF lastAction = "hold" /\ prevState.holdPiece # "null" THEN prevState.holdPiece
  ELSE prevState.nextPiece

\* it fits at row 0, col 3 in rotation 0 on the board the action leaves
IncomingFits == Placeable(state.board, Incoming, 0, 0, 3)

(***************************************************************************)
(* C16.  The status changes to gameover only in a transition in which the  *)
(* piece about to become active (after a lock, on start, or swapped in by  *)
(* hold) does not fit at row 0, col 3, rotation 0; whenever it fits, the   *)
(* transition does not end the game.                                       *)
(***************************************************************************)
C16_GameOverOnlyOnBlockedSpawn ==
  /\ (Dispatched /\ prevState.status # "gameover" /\ state.status = "gameover")
       => (SpawnAttempt /\ ~IncomingFits)
  /\ (SpawnAttempt /\ IncomingFits) => state.status = "playing"

\* a lock that clears nothing and leaves the spawn cells of the next piece
\* filled
C16_Witness ==
  /\ LockStep
  /\ state.lastClearedLines = 0
  /\ ~IncomingFits
  /\ state.status = "gameover"

(***************************************************************************)
(* C17.  If on hold the swapped-in piece does not fit at the spawn         *)
(* position, status becomes gameover and the hold is not performed:        *)
(* holdPiece, nextPiece, canHold, board, score and linesCleared are those  *)
(* of the state before the hold.                                           *)
(***************************************************************************)
C17_FailedHold ==
  (HoldAttempt /\ ~Placeable(prevState.board, Incoming, 0, 0, 3)) =>
    /\ state.status = "gameover"
    /\ state.holdPiece = prevState.holdPiece
    /\ state.nextPiece = prevState.nextPiece
    /\ state.canHold = prevState.canHold
    /\ state.board = prevState.board
    /\ state.score = prevState.score
    /\ state.linesCleared = prevState.linesCleared

\* a hold with an empty slot whose next piece finds its spawn cells filled
C17_Witness ==
  /\ HoldAttempt
  /\ ~Placeable(prevState.board, Incoming, 0, 0, 3)
  /\ state.status = "gameover"
  /\ state.holdPiece = "null"
  /\ state.canHold

(***************************************************************************)
(* C18.  start dispatched on an idle state whose spawn cells are occupied  *)
(* gives status gameover at once, with no active piece and with the board  *)
(* and the score unchanged.  (SpecStart)                                   *)
(***************************************************************************)
C18_BlockedStart ==
  (lastAction = "start" /\ prevState.status = "idle"
     /\ ~Placeable(prevState.board, prevState.nextPiece, 0, 0, 3)) =>
    /\ state.status = "gameover"
    /\ state.piece = NoPiece
    /\ state.board = prevState.board
    /\ state.score = prevState.score

\* start on a board with one filled cell among the spawn cells of the piece
C18_Witness ==
  /\ lastAction = "start"
  /\ prevState.status = "idle"
  /\ \E cell \in CellsAt(prevState.nextPiece, 0, 0, 3) :
       prevState.board[cell[1]][cell[2]] # EMPTY_CELL
  /\ state.status = "gameover"
  /\ state.piece = NoPiece

(***************************************************************************)
(* C19.  The transient feedback fields are reset on every transition:      *)
(* after any action that changes the state without locking a piece (move,  *)
(* rotation, soft-drop step, hold, pause, resume, start) lastLocked is     *)
(* false and lastClearedLines is 0.                                        *)
(***************************************************************************)
C19_TransientReset ==
  (lastAction \in {"move_left", "move_right", "rotate_cw", "rotate_ccw", "move_down",
                   "tick", "hold", "pause", "resume", "start"}
     /\ state # prevState /\ ~LockStep) =>
    (~state.lastLocked /\ state.lastClearedLines = 0)

(***************************************************************************)
(* C20.  The board always has exactly ROWS (20) rows of COLS (10) cells,   *)
(* and start, pause, resume, move_left, move_right, rotate_cw, rotate_ccw, *)
(* hold and a move_down or tick that does not lock leave every board cell  *)
(* unchanged: within a game the cells change only in a transition that     *)
(* locks a piece (restart begins a new game on a new empty board).         *)
(***************************************************************************)
C20_BoardFrame ==
  /\ ROWS = 20 /\ COLS = 10
  /\ DOMAIN state.board = 0..19
  /\ \A r \in 0..19 : DOMAIN state.board[r] = 0..9
  /\ (lastAction \in {"start", "pause", "resume", "move_left", "move_right",
                      "rotate_cw", "rotate_ccw", "hold"})
       => state.board = prevState.board
  /\ (lastAction \in {"move_down", "tick"} /\ ~LockStep) => state.board = prevState.board
  /\ (Dispatched /\ lastAction # "restart" /\ state.board # prevState.board) => LockStep

\* a tick that moves the piece one row down over a board with filled cells
C20_Witness ==
  /\ lastAction = "tick"
  /\ ~LockStep
  /\ state.piece.row = prevState.piece.row + 1
  /\ ~BoardEmpty(prevState.board)
  /\ state.board = prevState.board

(***************************************************************************)
(* C21.  tick is the same as move_down: for every state and the same       *)
(* random draw, gameReducer(state, tick) = gameReducer(state, move_down).  *)
(***************************************************************************)
C21_TickIsMoveDown ==
  /\ \A d \in DrawKinds :
       gameReducer(state, "tick", d) = gameReducer(state, "move_down", d)
  /\ lastAction = "tick" =>
       \E d \in DrawKinds : state = gameReducer(prevState, "move_down", d)

\* a tick that locks a piece and clears a row, as move_down does there
C21_Witness ==
  /\ lastAction = "tick"
  /\ LockStep
  /\ state.lastClearedLines = 1
  /\ \E d \in DrawKinds : state = gameReducer(prevState, "move_down", d)

(***************************************************************************)
(* C22.  The reducer is deterministic up to the random draws, and the      *)
(* only component of its result that depends on the draw is nextPiece:     *)
(* the results for two draws are equal in every other field, and for       *)
(* pause, resume, the moves and the rotations they are equal.              *)
(***************************************************************************)
C22_DrawOnlyInNextPiece ==
  Dispatched =>
    \A d \in DrawKinds :
      LET other == gameReducer(prevState, lastAction, d)
      IN /\ [other EXCEPT !.nextPiece = state.nextPiece] = state
         /\ lastAction \in {"pause", "resume", "move_left", "move_right", "move_down",
                            "rotate_cw", "rotate_ccw"} /\ ~LockStep
              => other = state

\* a lock whose result differs for two draws, in nextPiece and nowhere else
C22_Witness ==
  /\ LockStep
  /\ state.status = "playing"
  /\ \E d \in DrawKinds :
       LET other == gameReducer(prevState, lastAction, d)
       IN other # state /\ [other EXCEPT !.nextPiece = state.nextPiece] = state

\* row r of the board is filled in every column but the columns of gap
RowFilledExcept(board, r, gap) ==
  \A c \in 0..(COLS - 1) : (board[r][c] = EMPTY_CELL) <=> (c \in gap)

\* the last action hard-dropped an O from column col down to rows 18 and 19,
\* and row 18 is not completed by it
DroppedOAt(col) ==
  /\ lastAction = "hard_drop"
  /\ prevState.status = "playing"
  /\ prevState.piece.type = "O"
  /\ prevState.piece.col = col
  /\ LandingRow(prevState.board, prevState.piece) = 18
  /\ \E c \in (0..(COLS - 1)) \ {col, col + 1} : prevState.board[18][c] = EMPTY_CELL

\* row 19 was removed, one empty row came on top, 100 points and one line
OneRowCleared ==
  /\ state.lastClearedLines = 1
  /\ state.board[0] = EmptyRow
  /\ \A r \in 1..19 : state.board[r] = Stamped[r - 1]
  /\ state.score = prevState.score + 100
  /\ state.linesCleared = prevState.linesCleared + 1

(***************************************************************************)
(* C23.  On a board whose row 19 is filled in every column except columns  *)
(* 3 and 4 (the O piece is two cells wide), hard-dropping an active O at   *)
(* column 3 makes row 19 full: the row is removed, one empty row is        *)
(* prepended (row 18, which holds the upper half of the O, becomes row     *)
(* 19), score increases by 100 and linesCleared by 1.                      *)
(***************************************************************************)
C23_OFillsGapOfTwo ==
  (DroppedOAt(3) /\ RowFilledExcept(prevState.board, 19, {3, 4})) =>
    /\ FullRows(Stamped) = {19}
    /\ OneRowCleared
    /\ state.board[19][3] = "O" /\ state.board[19][4] = "O"

\* the O dropped into the gap of columns 3 and 4, and row 19 was cleared
C23_Witness ==
  /\ DroppedOAt(3)
  /\ RowFilledExcept(prevState.board, 19, {3, 4})
  /\ state.lastClearedLines = 1
  /\ state.score = prevState.score + 100

\* C23 as stated: row 19 is filled in every column except column 3, and the
\* hard drop of an active O, in whatever column, fills it and clears row 19
C23_OFillsGapOfOne ==
  (/\ lastAction = "hard_drop"
   /\ prevState.status = "playing"
   /\ prevState.piece.type = "O"
   /\ RowFilledExcept(prevState.board, 19, {3})) =>
    /\ state.lastClearedLines = 1
    /\ state.board[0] = EmptyRow
    /\ state.score = prevState.score + 100
    /\ state.linesCleared = prevState.linesCleared + 1

RECURSIVE Power(_, _)
Power(b, e) == IF e = 0 THEN 1 ELSE b * Power(b, e - 1)

\* n is the integer part of 1000 * 0.8^e = 1000 * 4^e / 5^e, which is
\* 8 * 4^e / 5^(e-3) for e >= 3
IsFloorOfProduct(n, e) ==
  IF e <= 3 THEN n * Power(5, e) = 1000 * Power(4, e)
  ELSE /\ n * Power(5, e - 3) <= 8 * Power(4, e)
       /\ 8 * Power(4, e) < (n + 1) * Power(5, e - 3)

(***************************************************************************)
(* C24.  getFallDelayMs(level) is the larger of 100 and the integer part   *)
(* of 1000 * 0.8^(level-1); it is 1000 at level 1, it does not increase    *)
(* when the level increases, and it is never below 100.                    *)
(***************************************************************************)
C24_FallDelay ==
  timing # NoTiming =>
    /\ \E n \in 0..1000 :
         /\ IsFloorOfProduct(n, timing.level - 1)
         /\ timing.delay = IF n < 100 THEN 100 ELSE n
    /\ timing.level = 1 => timing.delay = 1000
    /\ timing.level <= timing.other => timing.delay >= timing.otherDelay
    /\ timing.delay >= 100

\* the last level above the lower bound and the first level held by it
C24_Witness ==
  /\ timing.level = 11 /\ timing.delay = 107
  /\ timing.other = 12 /\ timing.otherDelay = 100

\* the state that results from the calls of the log, applied one after the
\* other from the state main.ts started with
Replayed(n) == runKeys(log.origin, log.calls, 1, n)

Calls == log.calls

(***************************************************************************)
(* C25.  Timer ticks and keyboard actions go through the one dispatch of   *)
(* main.ts, one at a time: the state held by main is always the result of  *)
(* applying the dispatched actions in the order of their dispatch to the   *)
(* state it started with, each to the result of the one before; no         *)
(* dispatched action is lost (every handler that has an action to dispatch *)
(* leaves it in that sequence); and the restart that Enter issues on game  *)
(* over is directly followed by its start, with no tick in between.        *)
(***************************************************************************)
C25_OneDispatchAtATime ==
  /\ state = Replayed(Len(Calls))
  /\ Len(Calls) > 0 =>
       /\ prevState = Replayed(Len(Calls) - 1)
       /\ lastAction = Calls[Len(Calls)][1]
  /\ \A i \in 1..Len(Calls) :
       /\ (Calls[i][1] = "tick") <=> (Calls[i][3] = "timer")
       /\ (Calls[i][1] = "restart" /\ Calls[i][3] = "start") =>
            /\ i < Len(Calls)
            /\ Calls[i + 1][1] = "start" /\ Calls[i + 1][3] = "start"
  /\ (event.by = "key" /\ keyToGameAction(event.code, event.repeat) # "null") =>
       /\ Len(Calls) > 0
       /\ Calls[Len(Calls)][3] = keyToGameAction(event.code, event.repeat)
  /\ (event.by = "timer" /\ event.due /\ event.before.status = "playing"
        /\ event.before.piece # NoPiece) =>
       /\ Len(Calls) > 0
       /\ Calls[Len(Calls)] [1] = "tick"

\* Enter on game over, then a frame whose tick moves the new piece down
C25_Witness ==
  /\ Len(Calls) = 3
  /\ Calls[1][1] = "restart" /\ Calls[1][3] = "start"
  /\ Calls[2][1] = "start"
  /\ Calls[3][1] = "tick"
  /\ state.piece.row = 1

\* the latest event was a press of the key with this code (not a repeat of a
\* key held down, which the listener drops for every key but the arrows)
Pressed(code) == event.by = "key" /\ event.code = code /\ ~event.repeat

(***************************************************************************)
(* C26.  Enter pressed while the game is over restarts and starts in one   *)
(* step: the handler dispatches restart, then start, and leaves status     *)
(* playing with score 0, linesCleared 0, level 1, an empty hold slot and a *)
(* board with no filled cell.  Enter pressed in status playing or paused   *)
(* leaves the state unchanged.                                             *)
(***************************************************************************)
C26_EnterOnGameOver ==
  Pressed("Enter") =>
    /\ event.before.status = "gameover" =>
         /\ Len(Calls) >= 2
         /\ Calls[Len(Calls) - 1][1] = "restart"
         /\ Calls[Len(Calls)][1] = "start"
         /\ prevState.status = "idle"
         /\ state.status = "playing"
         /\ state.score = 0 /\ state.linesCleared = 0 /\ state.level = 1
         /\ state.holdPiece = "null"
         /\ BoardEmpty(state.board)
    /\ event.before.status \in {"playing", "paused"} => state = event.before

\* Enter on a game over with a filled board and a score
C26_Witness ==
  /\ Pressed("Enter")
  /\ event.before.status = "gameover"
  /\ ~BoardEmpty(event.before.board)
  /\ event.before.score > 0
  /\ state.status = "playing"

(***************************************************************************)
(* C27.  The pause key P dispatches pause when status is playing and       *)
(* resume otherwise: P changes playing to paused and paused to playing     *)
(* (nothing else of the state but lastLocked, which is reset), and leaves  *)
(* idle and gameover states unchanged.                                     *)
(***************************************************************************)
C27_PauseKey ==
  Pressed("KeyP") =>
    /\ Len(Calls) > 0
    /\ Calls[Len(Calls)][1] = IF event.before.status = "playing" THEN "pause" ELSE "resume"
    /\ event.before.status = "playing" =>
         state = [event.before EXCEPT !.status = "paused", !.lastLocked = FALSE]
    /\ event.before.status = "paused" =>
         state = [event.before EXCEPT !.status = "playing", !.lastLocked = FALSE]
    /\ event.before.status \in {"idle", "gameover"} => state = event.before

\* P pressed twice: paused, then playing again
C27_Witness ==
  /\ Pressed("KeyP")
  /\ Len(Calls) = 2
  /\ Calls[1][1] = "pause" /\ Calls[2][1] = "resume"
  /\ event.before.status = "paused"
  /\ state.status = "playing"

(***************************************************************************)
(* C28.  In main.ts dispatch the line-clear cue (playLineClear, with the   *)
(* score pop) is triggered for a dispatch if and only if that dispatch     *)
(* itself locked a piece and cleared at least one row; a later dispatch    *)
(* that clears nothing never triggers it, whatever lastClearedLines still  *)
(* says.  The score pop shows the table value of the rows just cleared.    *)
(***************************************************************************)
C28_LineClearCue ==
  Dispatched =>
    /\ IF LockStep
       THEN LET full == FullRows(Stamped)
            IN /\ ("playLineClear" \in cues) <=> (full # {})
               /\ "playLineClear" \in cues => scorePopValue = TableValue(Cardinality(full))
       ELSE "playLineClear" \notin cues
    /\ scorePopValue \in {TableValue(k) : k \in 0..4}

\* a dispatch after a lock that cleared a row: lastClearedLines is still 1,
\* nothing is locked, no cue; the score pop is that of the lock
C28_Witness ==
  /\ Dispatched
  /\ prevState.lastLocked /\ prevState.lastClearedLines = 1
  /\ ~LockStep
  /\ state.lastClearedLines = 1
  /\ "playLineClear" \notin cues
  /\ scorePopValue = 100

C30_GhostRow ==
  /\ (state.status = "playing" /\ state.piece # NoPiece) =>
       LET ghost == getGhostRow(state.board, state.piece)
       IN IsLandingRow(state.board, state.piece, ghost)
  /\ (lastAction = "hard_drop" /\ prevState.status = "playing"
        /\ prevState.piece # NoPiece) =>
       state.board =
         Cleared(StampAt(prevState.board, prevState.piece.type, prevState.piece.rotation,
                         getGhostRow(prevState.board, prevState.piece),
                         prevState.piece.col))

\* a hard drop onto filled cells, several rows under the piece and above the
\* bottom of the board
C30_Witness ==
  /\ lastAction = "hard_drop"
  /\ prevState.status = "playing"
  /\ prevState.piece # NoPiece
  /\ getGhostRow(prevState.board, prevState.piece) > prevState.piece.row + 1
  /\ getGhostRow(prevState.board, prevState.piece) < ROWS - 4
  /\ state.lastLocked

(***************************************************************************)
(* C31.  In every reachable state with an active piece the piece fits:     *)
(* its rotation is one of 0..3 and the four occupied cells of its shape,   *)
(* placed at (row, col), are inside the board and on empty board cells.    *)
(***************************************************************************)
C31_ActivePieceFits ==
  state.piece # NoPiece =>
    /\ state.piece.rotation \in 0..3
    /\ Cardinality(CellsAt(state.piece.type, state.piece.rotation,
                           state.piece.row, state.piece.col)) = 4
    /\ Placeable(state.board, state.piece.type, state.piece.rotation,
                 state.piece.row, state.piece.col)

\* a piece that was moved against the left wall and stopped there
C31_Witness ==
  /\ lastAction = "move_left"
  /\ prevState.status = "playing"
  /\ state = prevState
  /\ state.piece # NoPiece
  /\ \E cell \in CellsAt(state.piece.type, state.piece.rotation,
                         state.piece.row, state.piece.col) : cell[2] = 0

(***************************************************************************)
(* C32.  No reachable state has a completely filled board row: the rows a  *)
(* lock fills are removed by the same action.                              *)
(***************************************************************************)
C32_NoFullRow == FullRows(state.board) = {}

\* a lock that filled a row, which is gone from the board of the next state
C32_Witness ==
  /\ LockStep
  /\ FullRows(Stamped) # {}
  /\ state.lastClearedLines > 0

\* the filled cells of a board
FilledCells(board) ==
  {rc \in Rows \X (0..(COLS - 1)) : board[rc[1]][rc[2]] # EMPTY_CELL}

(***************************************************************************)
(* C33.  Every lock stamps exactly four in-bounds cells that were empty:   *)
(* the number of filled cells after the lock is the number before plus 4   *)
(* minus COLS times the number of rows cleared, and one lock clears at     *)
(* most 4 rows.                                                            *)
(***************************************************************************)
C33_LockStampsFour ==
  LockStep =>
    LET cells == CellsAt(prevState.piece.type, prevState.piece.rotation,
                         LockedRow, prevState.piece.col)
        k == state.linesCleared - prevState.linesCleared
    IN /\ Cardinality(cells) = 4
       /\ \A cell \in cells :
            InBounds(cell) /\ prevState.board[cell[1]][cell[2]] = EMPTY_CELL
       /\ k \in 0..4
       /\ k = state.lastClearedLines
       /\ Cardinality(FilledCells(state.board))
            = Cardinality(FilledCells(prevState.board)) + 4 - COLS * k

\* a lock that clears rows, and a lock on a board with filled cells that
\* clears none, are both reached; this one is the first
C33_Witness ==
  /\ LockStep
  /\ state.linesCleared - prevState.linesCleared >= 2
  /\ FilledCells(state.board) # {}

(***************************************************************************)
(* C34.  In every reachable state score is a multiple of 100 and lies      *)
(* between 100 and 200 times linesCleared.                                 *)
(***************************************************************************)
C34_ScoreBounds ==
  /\ state.score % 100 = 0
  /\ 100 * state.linesCleared <= state.score
  /\ state.score <= 200 * state.linesCleared

\* a lock that scored, leaving the score strictly between the two bounds
C34_Witness ==
  /\ LockStep
  /\ state.score > prevState.score
  /\ 100 * state.linesCleared < state.score
  /\ state.score < 200 * state.linesCleared

(***************************************************************************)
(* C40.  Within a game (no restart) level never decreases, and it changes  *)
(* only in a lock, which raises it by at most 1.                           *)
(***************************************************************************)
C40_LevelMonotone ==
  (Dispatched /\ lastAction # "restart") =>
    /\ state.level >= prevState.level
    /\ state.level <= prevState.level + 1
    /\ state.level # prevState.level => LockStep

\* a lock that raised the level
C40_Witness ==
  /\ LockStep
  /\ state.level = prevState.level + 1

(***************************************************************************)
(* C35.  Every reachable idle state has an empty board, no active piece,   *)
(* no held piece and score 0; so start dispatched in a reachable idle      *)
(* state yields status playing with a piece, never gameover.               *)
(***************************************************************************)
C35_IdleIsFresh ==
  /\ state.status = "idle" =>
       /\ BoardEmpty(state.board)
       /\ state.piece = NoPiece
       /\ state.holdPiece = "null"
       /\ state.score = 0
  /\ (lastAction = "start" /\ prevState.status = "idle") =>
       /\ state.status = "playing"
       /\ state.piece # NoPiece

\* a game that was played, restarted and started again
C35_Witness ==
  /\ lastAction = "start"
  /\ prevState.status = "idle"
  /\ steps >= 2
  /\ state.status = "playing"

(***************************************************************************)
(* C36.  A dispatch triggers the lock cue (playLock) only if that dispatch *)
(* itself locked a piece with zero rows cleared; an action the reducer     *)
(* rejects right after a lock does not trigger the cue again.              *)
(***************************************************************************)
C36_LockCueOnlyOnLock ==
  (Dispatched /\ "playLock" \in cues) =>
    /\ LockStep
    /\ state.linesCleared = prevState.linesCleared

\* an action and the action said to undo it
InversePairs ==
  {<<"rotate_cw", "rotate_ccw">>, <<"rotate_ccw", "rotate_cw">>,
   <<"move_left", "move_right">>, <<"move_right", "move_left">>}

\* the state after action a and then action b (neither draws a kind)
AfterPair(s, a, b) ==
  CHOOSE r \in {gameReducer(s1, b, "I") : s1 \in {gameReducer(s, a, "I")}} : TRUE

ChangesPiece(s, a) == gameReducer(s, a, "I").piece # s.piece

(***************************************************************************)
(* C39.  Inverse actions undo each other: in a reachable playing state, if *)
(* a rotation or a sideways move changes the piece, the opposite action    *)
(* dispatched next restores the piece, and the pair leaves every other     *)
(* field as it was except lastLocked, which is false after the pair.       *)
(***************************************************************************)
C39_InverseRestoresPiece ==
  state.status = "playing" =>
    \A p \in InversePairs :
      ChangesPiece(state, p[1]) =>
        AfterPair(state, p[1], p[2]) = [state EXCEPT !.lastLocked = FALSE]

\* C39 as stated: the pair leaves the whole state as it was
C39_InverseRestoresState ==
  state.status = "playing" =>
    \A p \in InversePairs :
      ChangesPiece(state, p[1]) => AfterPair(state, p[1], p[2]) = state

\* a playing state a lock has just produced, in which both rotations and
\* both moves change the piece
C39_Witness ==
  /\ state.status = "playing"
  /\ state.lastLocked
  /\ \A p \in InversePairs : ChangesPiece(state, p[1])
  /\ AfterPair(state, "move_left", "move_right").piece = state.piece
  /\ AfterPair(state, "move_left", "move_right") # state

\* the ticks a piece can still take without locking: the rows below it, and
\* ROWS more while a hold can still bring a piece in at the spawn row
TicksLeft(s) == (ROWS - s.piece.row) + (IF s.canHold THEN ROWS ELSE 0)

(***************************************************************************)
(* C37.  For one active piece no move or rotation decreases its row and    *)
(* every tick in status playing moves it down one row or locks it; hold    *)
(* brings a piece in at the spawn row at most once before the next lock.   *)
(* So a lock occurs within 2*ROWS ticks after a spawn however moves,       *)
(* rotations and holds are interleaved.                                    *)
(***************************************************************************)
C37_LockWithinTwoRowsTicks ==
  /\ fall.ticks <= 2 * ROWS
  /\ (state.status = "playing" /\ ~fall.locked) =>
       fall.ticks + TicksLeft(state) <= 2 * ROWS
  /\ lastAction \in {"move_left", "move_right", "rotate_cw", "rotate_ccw"} =>
       state.piece.row >= prevState.piece.row
  /\ lastAction = "tick" =>
       \/ fall.locked /\ LockStep /\ state.lastLocked
       \/ ~fall.locked /\ state = [prevState EXCEPT !.piece.row = prevState.piece.row + 1,
                                                    !.lastLocked = FALSE]
  /\ (lastAction = "hold" /\ state.piece # prevState.piece) =>
       /\ prevState.canHold
       /\ ~state.canHold
       /\ state.piece.row = SPAWN_ROW

\* a lock by a tick after more than ROWS ticks: the piece was held on its way
\* down and the piece that came in fell the whole board
C37_Witness ==
  /\ fall.locked
  /\ fall.ticks > ROWS + 10
  /\ LockStep

(***************************************************************************)
(* C38.  From a reachable playing state, if only ticks are dispatched from *)
(* then on (the timer keeps firing, no key is pressed), the game           *)
(* eventually reaches status gameover.                                     *)
(***************************************************************************)
C38_TicksEndTheGame == (state.status = "playing") ~> (state.status = "gameover")

\* a tick that ended a game the timer alone has played
C38_Witness ==
  /\ lastAction = "tick"
  /\ prevState.status = "playing"
  /\ state.status = "gameover"
  /\ LockStep

====
